---------------------------- MODULE Spec2Model ----------------------------
(***************************************************************************)
(* A model of the DuckDB database-file viewer: the upload handler of the   *)
(* page (handleFileUpload) and the binary decoder it drives                *)
(* (parseMainHeader, parseDatabaseHeader, getBlockId, getBlockIndex,       *)
(* analyzeBlocks).                                                         *)
(*                                                                         *)
(* Representation.                                                         *)
(*  - A 64-bit unsigned value (a bigint read by getBigUint64) is a tuple   *)
(*    of 8 bytes, least significant first, exactly as it lies in the file. *)
(*  - A JavaScript number is an integer; every value of 2^30 or more is    *)
(*    held as a value of at least 2^30 - 2^12 (saturating arithmetic).     *)
(*    A file is at most 2^29 bytes, so the outcome of every comparison of  *)
(*    an offset with the buffer length is the one the code computes.       *)
(*  - The file is a sparse byte array: its length and its non-zero bytes.  *)
(***************************************************************************)
EXTENDS Integers, Sequences, FiniteSets, TLC

VARIABLES
  file,                     \* the File selected in the input element
  pc,                       \* position of the handleFileUpload invocation
  buffer,                   \* const buffer = await file.arrayBuffer()
  mainHeader,               \* parseMainHeader(buffer)
  dbHeader1,                \* parseDatabaseHeader(buffer, 4096)
  dbHeader2,                \* parseDatabaseHeader(buffer, 8192)
  activeHeader,             \* analyzeBlocks: activeHeader
  blockSize,                \* analyzeBlocks: blockSize
  totalBlocks,              \* analyzeBlocks: totalBlocks
  segmentSize,              \* analyzeBlocks: segmentSize
  freeBlocks,               \* analyzeBlocks: freeBlocks (Set<bigint>)
  metaBlockUsedIndexes,     \* analyzeBlocks: Map block key -> Set<number>
  flOffset,                 \* analyzeBlocks: blockOffset of the free list
  freeListCount,            \* analyzeBlocks: freeListCount
  flIndex,                  \* analyzeBlocks: i of the free-list read loop
  flReads,                  \* offsets read through the free-list DataView
  currentMetaBlockPointer,  \* analyzeBlocks: chain walk state
  currentMetaBlockId,
  currentMetaBlockIndex,
  visited,                  \* the (blockId, index) pairs the walk recorded
  walkEnd,                  \* how the while loop was left
  walkTurns,                \* turns of the while loop taken so far, modulo 2
  i,                        \* analyzeBlocks: i of the classification loop
  blocks,                   \* analyzeBlocks: blocks
  thrown,                   \* the Error in flight to the handler's catch
  fileAnalysis,             \* React state of Home
  error,                    \* React state of Home
  ptr,                      \* codec check: the pointer under test
  decoded,                  \* codec check: what the codec returned for it
  versionStr,               \* version check: the argument of isVersionSupported
  supported,                \* version check: what isVersionSupported returned
  waiting,                  \* files whose arrayBuffer() read is pending in an
                            \* invocation other than the one at pc
  selected,                 \* the file selected last
  uploads,                  \* the number of handleFileUpload calls so far
  results,                  \* per file, the state its latest completed call set
  shownOffsets              \* BlockVisualizer: the offsets in the segment titles

vars == << file, pc, buffer, mainHeader, dbHeader1, dbHeader2, activeHeader,
           blockSize, totalBlocks, segmentSize, freeBlocks,
           metaBlockUsedIndexes, flOffset, freeListCount, flIndex, flReads,
           currentMetaBlockPointer, currentMetaBlockId, currentMetaBlockIndex,
           visited, walkEnd, walkTurns, i, blocks, thrown, fileAnalysis, error,
           ptr, decoded, versionStr, supported,
           waiting, selected, uploads, results, shownOffsets >>

None == "none"

-----------------------------------------------------------------------------
(* Bounds of the model                                                      *)

\* block ids the generated pointers and block counts range over: 0..MaxBlocks-1
MaxBlocks == 3
\* longest metadata chain written into a generated file
MaxChain == 3

-----------------------------------------------------------------------------
(* Program constants                                                        *)

FILE_HEADER_SIZE == 4096
MAX_VERSION_SIZE == 64
CHECKSUM_SIZE == 8
META_SEGMENTS_PER_BLOCK == 64
BLOCK_START == FILE_HEADER_SIZE * 3
MAX_FILE_SIZE == 512 * 1024 * 1024
\* "DUCK"
MAGIC_BYTES == << 68, 85, 67, 75 >>

-----------------------------------------------------------------------------
(* JavaScript numbers, saturating at Huge                                   *)

Huge == 1073741824

Sat(n) == IF n > Huge THEN Huge ELSE n

NumAdd(a, b) == Sat(a + b)

NumMul(a, b) ==
  IF a = 0 \/ b = 0 THEN 0
  ELSE IF a < 0 \/ b < 0 THEN a * b
  ELSE IF a > Huge \div b THEN Huge
  ELSE a * b

-----------------------------------------------------------------------------
(* 64-bit unsigned values as 8 little-endian bytes                          *)

Byte == 0..255
WordIdx == 1..8

Pow256(k) == CASE k = 0 -> 1 [] k = 1 -> 256 [] k = 2 -> 65536 [] k = 3 -> 16777216

\* BigInt(n) for a number 0 <= n < 2^31
BigInt(n) == [k \in WordIdx |-> IF k <= 4 THEN (n \div Pow256(k - 1)) % 256 ELSE 0]

\* Number(w), saturating
Number(w) ==
  IF w[8] # 0 \/ w[7] # 0 \/ w[6] # 0 \/ w[5] # 0 \/ w[4] >= 64 THEN Huge
  ELSE w[1] + 256 * w[2] + 65536 * w[3] + 16777216 * w[4]

RECURSIVE BigGtFrom(_, _, _)
BigGtFrom(a, b, k) ==
  IF k = 0 THEN FALSE
  ELSE IF a[k] # b[k] THEN a[k] > b[k]
  ELSE BigGtFrom(a, b, k - 1)

\* a > b on bigints
BigGt(a, b) == BigGtFrom(a, b, 8)

RECURSIVE BitAnd(_, _)
BitAnd(a, b) ==
  IF a = 0 \/ b = 0 THEN 0
  ELSE (a % 2) * (b % 2) + 2 * BitAnd(a \div 2, b \div 2)

RECURSIVE BitOr(_, _)
BitOr(a, b) ==
  IF a = 0 THEN b
  ELSE IF b = 0 THEN a
  ELSE (IF a % 2 = 1 \/ b % 2 = 1 THEN 1 ELSE 0) + 2 * BitOr(a \div 2, b \div 2)

\* x & y, x | y, ~x (on 64 bits), x << 8n (kept to 64 bits), x >> 8n
BigAnd(x, y) == [k \in WordIdx |-> BitAnd(x[k], y[k])]
BigOr(x, y) == [k \in WordIdx |-> BitOr(x[k], y[k])]
BigNot(x) == [k \in WordIdx |-> 255 - x[k]]
BigShlBytes(x, n) == [k \in WordIdx |-> IF k > n THEN x[k - n] ELSE 0]
BigShrBytes(x, n) == [k \in WordIdx |-> IF k + n <= 8 THEN x[k + n] ELSE 0]

\* const INVALID_BLOCK = BigInt("0xFFFFFFFFFFFFFFFF")
INVALID_BLOCK == [k \in WordIdx |-> 255]

\* BigInt(0xFF) << BigInt(56)
IndexMask == BigShlBytes(BigInt(255), 7)

\* blockPointer & ~(BigInt(0xFF) << BigInt(56))
getBlockId(blockPointer) == BigAnd(blockPointer, BigNot(IndexMask))

\* faulty variant: a mask of 0x7F, which drops the top bit of the index
getBlockIndexLow7(blockPointer) ==
  Number(BigShrBytes(BigAnd(blockPointer, BigShlBytes(BigInt(127), 7)), 7))

\* Number((blockPointer & (BigInt(0xFF) << BigInt(56))) >> BigInt(56))
getBlockIndex(blockPointer) == Number(BigShrBytes(BigAnd(blockPointer, IndexMask), 7))

\* the tagged pointer of segment idx of block id (ids below 2^31)
MakePointer(id, idx) == [BigInt(id) EXCEPT ![8] = idx]

-----------------------------------------------------------------------------
(* The file: an ArrayBuffer of `size` bytes, `mem` its non-zero bytes       *)

ReadByte(buf, o) == IF o \in DOMAIN buf.mem THEN buf.mem[o] ELSE 0

\* new DataView(buffer, base).getBigUint64(rel, true) raises a RangeError
\* unless the 8 bytes lie inside the buffer
CanRead(buf, base, rel) == base + rel >= 0 /\ base + rel + 8 <= buf.size

\* little-endian read
getBigUint64(buf, o) == [k \in WordIdx |-> ReadByte(buf, o + k - 1)]

\* new TextDecoder().decode(new Uint8Array(buffer, o, n)) on ASCII bytes:
\* the string as its sequence of character codes
DecodeText(buf, o, n) == [k \in 1..n |-> ReadByte(buf, o + k - 1)]

\* s.replace(/\0+$/, '')
RECURSIVE TrimNul(_)
TrimNul(s) ==
  IF s = << >> THEN s
  ELSE IF s[Len(s)] = 0 THEN TrimNul(SubSeq(s, 1, Len(s) - 1))
  ELSE s

\* faulty variant: the flags are read from byte 12 on, over the version number
parseMainHeaderFlagsEarly(buf) ==
  [ checksum       |-> getBigUint64(buf, 0),
    magic          |-> DecodeText(buf, CHECKSUM_SIZE, 4),
    versionNumber  |-> getBigUint64(buf, 12),
    flags          |-> [f \in 1..4 |-> getBigUint64(buf, 12 + 8 * (f - 1))],
    libraryVersion |-> TrimNul(DecodeText(buf, 52, MAX_VERSION_SIZE)),
    sourceId       |-> TrimNul(DecodeText(buf, 52 + MAX_VERSION_SIZE, MAX_VERSION_SIZE)) ]

\* parseMainHeader's result when the magic matches (the magic check is in
\* the action that calls it)
parseMainHeader(buf) ==
  [ checksum       |-> getBigUint64(buf, 0),
    magic          |-> DecodeText(buf, CHECKSUM_SIZE, 4),
    versionNumber  |-> getBigUint64(buf, 12),
    flags          |-> [f \in 1..4 |-> getBigUint64(buf, 20 + 8 * (f - 1))],
    libraryVersion |-> TrimNul(DecodeText(buf, 52, MAX_VERSION_SIZE)),
    sourceId       |-> TrimNul(DecodeText(buf, 52 + MAX_VERSION_SIZE, MAX_VERSION_SIZE)) ]

TaggedPointer(raw) ==
  [ pointer |-> raw, blockId |-> getBlockId(raw), blockIndex |-> getBlockIndex(raw) ]

\* faulty variant: no checksum is skipped, every field is read 8 bytes early
parseDatabaseHeaderNoChecksum(buf, headerOffset) ==
  [ checksum                   |-> getBigUint64(buf, headerOffset),
    iteration                  |-> getBigUint64(buf, headerOffset),
    metaBlock                  |-> TaggedPointer(getBigUint64(buf, headerOffset + 8)),
    freeList                   |-> TaggedPointer(getBigUint64(buf, headerOffset + 16)),
    blockCount                 |-> getBigUint64(buf, headerOffset + 24),
    blockAllocSize             |-> getBigUint64(buf, headerOffset + 32),
    vectorSize                 |-> getBigUint64(buf, headerOffset + 40),
    serializationCompatibility |-> getBigUint64(buf, headerOffset + 48) ]

parseDatabaseHeader(buf, headerOffset) ==
  [ checksum                   |-> getBigUint64(buf, headerOffset),
    iteration                  |-> getBigUint64(buf, headerOffset + 8),
    metaBlock                  |-> TaggedPointer(getBigUint64(buf, headerOffset + 16)),
    freeList                   |-> TaggedPointer(getBigUint64(buf, headerOffset + 24)),
    blockCount                 |-> getBigUint64(buf, headerOffset + 32),
    blockAllocSize             |-> getBigUint64(buf, headerOffset + 40),
    vectorSize                 |-> getBigUint64(buf, headerOffset + 48),
    serializationCompatibility |-> getBigUint64(buf, headerOffset + 56) ]

-----------------------------------------------------------------------------
(* isVersionSupported, on strings as sequences of character codes           *)

IsDigit(c) == c >= 48 /\ c <= 57

\* the first position at or after p that holds no digit
RECURSIVE DigitsEnd(_, _)
DigitsEnd(s, p) ==
  IF p <= Len(s) /\ IsDigit(s[p]) THEN DigitsEnd(s, p + 1) ELSE p

\* parseInt(digits, 10) of s[from..to-1]
RECURSIVE ParseInt(_, _, _, _)
ParseInt(s, from, to, acc) ==
  IF from >= to THEN acc
  ELSE ParseInt(s, from + 1, to, NumAdd(NumMul(acc, 10), s[from] - 48))

\* versionStr.match(/^v(\d+)\.(\d+)\.(\d+)/): the three numbers, or << >>
VersionMatch(s) ==
  LET e1 == DigitsEnd(s, 2)
      e2 == DigitsEnd(s, e1 + 1)
      e3 == DigitsEnd(s, e2 + 1)
  IN IF /\ Len(s) >= 1 /\ s[1] = 118
        /\ e1 > 2 /\ e1 <= Len(s) /\ s[e1] = 46
        /\ e2 > e1 + 1 /\ e2 <= Len(s) /\ s[e2] = 46
        /\ e3 > e2 + 1
     THEN << ParseInt(s, 2, e1, 0), ParseInt(s, e1 + 1, e2, 0), ParseInt(s, e2 + 1, e3, 0) >>
     ELSE << >>

\* faulty variant: every 1.x release is accepted
isVersionSupportedMajorOnly(str) ==
  IF str = << >> \/ str[1] # 118 THEN FALSE
  ELSE LET m == VersionMatch(str)
       IN IF m = << >> THEN FALSE
          ELSE m[1] >= 1

\* faulty variant: 1.2.x is accepted from patch 1 on
isVersionSupportedAfter120(str) ==
  IF str = << >> \/ str[1] # 118 THEN FALSE
  ELSE LET m == VersionMatch(str)
       IN IF m = << >> THEN FALSE
          ELSE \/ m[1] > 1
               \/ m[1] = 1 /\ m[2] > 2
               \/ m[1] = 1 /\ m[2] = 2 /\ m[3] > 0

isVersionSupported(str) ==
  IF str = << >> \/ str[1] # 118 THEN FALSE
  ELSE LET m == VersionMatch(str)
       IN IF m = << >> THEN FALSE
          ELSE \/ m[1] > 1
               \/ m[1] = 1 /\ m[2] > 2
               \/ m[1] = 1 /\ m[2] = 2 /\ m[3] >= 0

-----------------------------------------------------------------------------
(* The files the model uploads.  They are written the way the parser test  *)
(* writes its buffer (setupTestBuffer): 4096-byte blocks after the three    *)
(* header blocks, each chained segment holding the pointer to the next.     *)

GenBlockSize == 4096
GenSegmentSize == ((GenBlockSize - 8) \div (64 * 8)) * 8
GenSegmentOffset(loc) == BLOCK_START + loc[1] * GenBlockSize + 8 + loc[2] * GenSegmentSize
FullSize(n) == BLOCK_START + n * GenBlockSize

EmptyMem == [a \in {} |-> 0]

WriteBytes(m, o, bytes) ==
  LET touched == o..(o + Len(bytes) - 1)
      dom == (DOMAIN m \ touched) \cup {o + k - 1 : k \in {j \in 1..Len(bytes) : bytes[j] # 0}}
  IN [a \in dom |-> IF a \in touched THEN bytes[a - o + 1] ELSE m[a]]

Write64(m, o, w) == WriteBytes(m, o, w)

Truncate(m, size) == [a \in {x \in DOMAIN m : x < size} |-> m[a]]

\* "v1.2.0"
VersionOk == << 118, 49, 46, 50, 46, 48 >>

\* the storage version, the four flags and the source id of a generated
\* file; the source id has a NUL inside
GenVersionNumber == BigInt(64)
GenFlags == << BigInt(1), BigInt(2), BigInt(3), BigInt(4) >>
GenSourceId == << 97, 0, 98 >>

WriteMainHeader(m, magic, version) ==
  LET named == WriteBytes(WriteBytes(Write64(m, 0, BigInt(12345)), 8, magic), 52, version)
      flagged == Write64(Write64(Write64(Write64(Write64(named,
                   12, GenVersionNumber), 20, GenFlags[1]), 28, GenFlags[2]),
                   36, GenFlags[3]), 44, GenFlags[4])
  IN WriteBytes(flagged, 52 + MAX_VERSION_SIZE, GenSourceId)

\* the checksum, vector size and serialization compatibility of a generated
\* database header
GenHeaderChecksum == BigInt(54321)
GenVectorSize == BigInt(2048)
GenSerialization == BigInt(9)

\* h: the five fields the decoder uses, as 64-bit values
WriteDatabaseHeader(m, off, h) ==
  Write64(Write64(Write64(Write64(Write64(Write64(Write64(Write64(m,
    off, GenHeaderChecksum),
    off + 8, h.iteration), off + 16, h.metaBlock), off + 24, h.freeList),
    off + 32, h.blockCount), off + 40, h.blockAllocSize), off + 48, GenVectorSize),
    off + 56, GenSerialization)

\* the pointers of a chain: one per segment, then the terminator
ChainPointer(chain, term, k) ==
  IF k <= Len(chain) THEN MakePointer(chain[k][1], chain[k][2]) ELSE term

RECURSIVE WriteChain(_, _, _, _)
WriteChain(m, chain, term, k) ==
  IF k > Len(chain) THEN m
  ELSE WriteChain(Write64(m, GenSegmentOffset(chain[k]), ChainPointer(chain, term, k + 1)),
                  chain, term, k + 1)

RECURSIVE WriteIds(_, _, _, _)
WriteIds(m, o, ids, k) ==
  IF k > Len(ids) THEN m
  ELSE WriteIds(Write64(m, o + 16 + 8 * (k - 1), ids[k]), o, ids, k + 1)

\* a header without a free list
NoFreeList == [ loc |-> << >>, count |-> << >>, ids |-> << >> ]

\* fl: NoFreeList, or the free list's segment, count and ids
WriteFreeList(m, fl) ==
  IF fl.loc = << >> THEN m
  ELSE WriteIds(Write64(m, GenSegmentOffset(fl.loc) + 8, fl.count),
                GenSegmentOffset(fl.loc), fl.ids, 1)

FreeListPointer(fl) == IF fl.loc = << >> THEN INVALID_BLOCK ELSE MakePointer(fl.loc[1], fl.loc[2])

Header(iteration, chain, term, fl, blockCount) ==
  [ iteration      |-> iteration,
    metaBlock      |-> ChainPointer(chain, term, 1),
    freeList       |-> FreeListPointer(fl),
    blockCount     |-> BigInt(blockCount),
    blockAllocSize |-> BigInt(GenBlockSize) ]

\* a header generation that describes nothing of the file's contents
Decoy(iteration, n) ==
  [ iteration      |-> iteration,
    metaBlock      |-> MakePointer(0, 1 + n),
    freeList       |-> IF n = 0 THEN INVALID_BLOCK ELSE MakePointer(1, 2),
    blockCount     |-> BigInt(1 + n),
    blockAllocSize |-> BigInt(2048 + 1024 * n) ]

MkFile(size, magic, version, h1, h2, chain, term, fl) ==
  [ size |-> size,
    mem  |-> Truncate(
               WriteFreeList(
                 WriteChain(
                   WriteDatabaseHeader(
                     WriteDatabaseHeader(WriteMainHeader(EmptyMem, magic, version),
                                         FILE_HEADER_SIZE, h1),
                     2 * FILE_HEADER_SIZE, h2),
                   chain, term, 1),
                 fl),
               size) ]

\* segments a generated chain or free list may occupy: << block id, index >>
Locs == { <<0, 0>>, <<1, 0>>, <<1, 5>>, <<1, 63>>, <<2, 63>>, <<0, 64>> }

RECURSIVE ChainsUpTo(_)
ChainsUpTo(n) ==
  IF n = 0 THEN { << >> }
  ELSE LET shorter == ChainsUpTo(n - 1)
       IN shorter \cup
          { Append(c, l) : c \in {d \in shorter : Len(d) = n - 1},
                           l \in Locs } 

IsInjective(c) == \A a, b \in 1..Len(c) : a # b => c[a] # c[b]

Chains == { c \in ChainsUpTo(MaxChain) : IsInjective(c) }

\* what the last segment of a chain points to: the sentinel, a block far
\* outside the file, zero bytes, or (a cycle) the chain's first segment
Terminators(chain) ==
  { INVALID_BLOCK, MakePointer(200, 0), BigInt(0) }
    \cup (IF chain = << >> THEN {} ELSE { MakePointer(chain[1][1], chain[1][2]) })

\* sizes: every block present, the last block absent, the last block cut
\* after 4 bytes
Sizes == { FullSize(MaxBlocks), FullSize(MaxBlocks - 1), FullSize(MaxBlocks - 1) + 4 }

One == BigInt(1)
Two == BigInt(2)

\* a file size and the block count its header declares: the whole file, a
\* header that leaves the last block out, a file that lacks the last block
\* or has 4 bytes of it
Shapes ==
  { << size, MaxBlocks >> : size \in Sizes } \cup { << FullSize(MaxBlocks), MaxBlocks - 1 >> }

\* metadata chains of every shape, no free list
ChainFiles ==
  UNION { { MkFile(shape[1], MAGIC_BYTES, VersionOk, Decoy(One, 0),
                   Header(Two, chain, term, NoFreeList, shape[2]), chain, term, NoFreeList) :
              shape \in Shapes, term \in Terminators(chain) } : chain \in Chains }

IdPatterns ==
  { << BigInt(0), BigInt(1), BigInt(2), BigInt(0), BigInt(1), BigInt(2) >>,
    << BigInt(2), BigInt(2), BigInt(7), MakePointer(1, 1), BigInt(2), BigInt(0) >>,
    << BigInt(1), INVALID_BLOCK, BigInt(0), BigInt(300), BigInt(1), BigInt(1) >> }

FreeLists ==
  { [ loc |-> loc, count |-> count, ids |-> ids ] :
      loc \in { <<0, 0>>, <<1, 63>>, <<2, 0>>, <<2, 63>>, <<0, 64>>, <<200, 0>> },
      count \in { BigInt(0), BigInt(1), BigInt(2), BigInt(5), BigInt(6), BigInt(7),
                  MakePointer(0, 1), INVALID_BLOCK },
      ids \in IdPatterns }

\* free lists of every shape beside a short chain; the file may end inside
\* the free list's segment
FreeListFiles ==
  { MkFile(size, MAGIC_BYTES, VersionOk, Decoy(One, 1),
           Header(Two, chain, INVALID_BLOCK, fl, MaxBlocks), chain, INVALID_BLOCK, fl) :
      fl \in FreeLists,
      chain \in { << >>, << <<1, 0>> >>, << <<1, 5>>, <<2, 63>> >> },
      size \in { FullSize(MaxBlocks) } } 
  \cup
  { MkFile(GenSegmentOffset(fl.loc) + cut, MAGIC_BYTES, VersionOk, Decoy(One, 1),
           Header(Two, << <<1, 0>> >>, INVALID_BLOCK, fl, MaxBlocks),
           << <<1, 0>> >>, INVALID_BLOCK, fl) :
      fl \in { f \in FreeLists : f.loc[1] < 3 /\ f.ids \in {CHOOSE p \in IdPatterns : TRUE} },
      cut \in { 0, 4, 12, 20, 28 } }

\* the two header generations in every order of their iteration counters
Iterations ==
  { <<One, Two>>, <<Two, One>>, <<Two, Two>>, << MakePointer(0, 1), Two >>,
    << BigInt(3), BigInt(7) >>, << BigInt(256), BigInt(255) >> }

HeaderFiles ==
  LET chain == << <<1, 0>>, <<1, 5>> >>
      fl == [ loc |-> <<2, 0>>, count |-> One, ids |-> << BigInt(0) >> ]
  IN { MkFile(FullSize(MaxBlocks), MAGIC_BYTES, VersionOk,
              Header(it[1], chain, INVALID_BLOCK, fl, MaxBlocks), Decoy(it[2], n),
              chain, INVALID_BLOCK, fl) : it \in Iterations, n \in {0, 1} }
     \cup
     { MkFile(FullSize(MaxBlocks), MAGIC_BYTES, VersionOk,
              Decoy(it[1], n), Header(it[2], chain, INVALID_BLOCK, fl, MaxBlocks),
              chain, INVALID_BLOCK, fl) : it \in Iterations, n \in {0, 1} }

\* "FAKE", and versions around 1.2.0
MagicFake == << 70, 65, 75, 69 >>
Versions ==
  { << >>, << 49, 46, 50, 46, 48 >>, << 118, 49, 46, 49, 46, 57 >>,
    << 118, 48, 46, 57, 46, 48 >>, << 118, 50, 46, 48, 46, 48 >>,
    << 118, 49, 46, 50, 46, 48, 101, 53, 50 >>, << 118, 49, 46, 51 >>,
    << 118, 49, 46, 49, 48, 46, 48 >> }

\* files the handler turns away, or accepts on their version
RejectFiles ==
  LET h == Header(Two, << >>, INVALID_BLOCK, NoFreeList, 1)
  IN { MkFile(size, MAGIC_BYTES, VersionOk, Decoy(One, 0), h, << >>, INVALID_BLOCK, NoFreeList) :
         size \in { 12, 3 * FILE_HEADER_SIZE - 1, MAX_FILE_SIZE, MAX_FILE_SIZE + 1 } }
     \cup
     { MkFile(FullSize(1), MagicFake, VersionOk, Decoy(One, 0), h, << >>, INVALID_BLOCK, NoFreeList) }
     \cup
     { MkFile(FullSize(1), MAGIC_BYTES, v, Decoy(One, 0), h, << >>, INVALID_BLOCK, NoFreeList) :
         v \in Versions }

\* block sizes a header may declare: none, one word, the sizes around the
\* first segment sizes (8, 16, 24 bytes), an unaligned one and DuckDB's 256 KiB
BlockSizes == { 0, 8, 519, 520, 1032, 1544, 4100, 262144 }

\* alignValueFloor((blockSize - 8) / 64) of a generated file
SizedSegment(bsize) == ((bsize - 8) \div 512) * 8

\* the checksum word a sized file carries at the start of block 0
BlockChecksum == << 2, 1, 0, 0, 0, 0, 0, 0 >>

\* a one-page file whose header declares block size bsize and whose free
\* list, of `count` ids, lies in segment index of block 0; block 0 starts
\* with a checksum
MkSizedFile(bsize, index, count) ==
  LET at == BLOCK_START + 8 + index * SizedSegment(bsize)
      h == [ iteration      |-> Two,
             metaBlock      |-> INVALID_BLOCK,
             freeList       |-> MakePointer(0, index),
             blockCount     |-> Two,
             blockAllocSize |-> BigInt(bsize) ]
  IN [ size |-> BLOCK_START + GenBlockSize,
       mem  |-> Truncate(
                  WriteIds(
                    Write64(
                      Write64(
                        WriteDatabaseHeader(
                          WriteDatabaseHeader(WriteMainHeader(EmptyMem, MAGIC_BYTES, VersionOk),
                                              FILE_HEADER_SIZE, Decoy(One, 0)),
                          2 * FILE_HEADER_SIZE, h),
                        BLOCK_START, BlockChecksum),
                      at + 8, count),
                    at, << One, BigInt(0), One >>, 1),
                  BLOCK_START + GenBlockSize) ]

\* free lists under every block size, their counts at and around the caps
SizedFiles ==
  { MkSizedFile(bsize, index, count) :
      bsize \in BlockSizes, index \in { 0, 1 },
      count \in { BigInt(0), One, Two, BigInt(3), BigInt(509), BigInt(510) } }

\* files that end inside their last block, after its checksum: the chain
\* leads to a segment of that block
CutFiles ==
  { MkFile(FullSize(MaxBlocks - 1) + cut, MAGIC_BYTES, VersionOk, Decoy(One, 0),
           Header(Two, chain, INVALID_BLOCK, NoFreeList, MaxBlocks),
           chain, INVALID_BLOCK, NoFreeList) :
      chain \in { << << MaxBlocks - 1, 0 >> >>,
                  << << 1, 5 >>, << MaxBlocks - 1, 0 >> >>,
                  << << 1, 0 >>, << MaxBlocks - 1, 63 >> >> },
      cut \in { 8, 12, 16 } }

Files ==
  ChainFiles \cup FreeListFiles \cup HeaderFiles \cup RejectFiles \cup SizedFiles \cup CutFiles

-----------------------------------------------------------------------------
(* analyzeBlocks: the pieces its steps are made of                          *)

\* faulty variant: equal iterations select header 1
ActiveHeaderTieFirst(h1, h2) == IF BigGt(h2.iteration, h1.iteration) THEN h2 ELSE h1

\* dbHeader1.iteration > dbHeader2.iteration ? dbHeader1 : dbHeader2
ActiveHeader(h1, h2) == IF BigGt(h1.iteration, h2.iteration) THEN h1 ELSE h2

\* Number(dbHeader1.iteration > dbHeader2.iteration ? dbHeader1.blockAllocSize
\*                                                 : dbHeader2.blockAllocSize)
ActiveBlockSize(h1, h2) ==
  Number(IF BigGt(h1.iteration, h2.iteration) THEN h1.blockAllocSize ELSE h2.blockAllocSize)

\* faulty variant: the segment size is not aligned down to 8 bytes
SegmentSizeUnaligned(b) == (b - 8) \div META_SEGMENTS_PER_BLOCK

\* alignValueFloor((blockSize - blockHeaderSize) / META_SEGMENTS_PER_BLOCK):
\* floor(((b - 8) / 64) / 8) * 8, the divisions being exact divisions
SegmentSize(b) == ((b - 8) \div (META_SEGMENTS_PER_BLOCK * 8)) * 8

\* faulty variant: the 8-byte block header is not skipped
SegmentOffsetNoHeader(id, index, bsize, ssize) ==
  NumAdd(NumAdd(BLOCK_START, NumMul(Number(id), bsize)), NumMul(index, ssize))

\* BLOCK_START + Number(id) * blockSize + blockHeaderSize + index * segmentSize
SegmentOffset(id, index, bsize, ssize) ==
  NumAdd(NumAdd(NumAdd(BLOCK_START, NumMul(Number(id), bsize)), 8), NumMul(index, ssize))

\* faulty variant: the block is taken to start after its 8-byte header
BlockOffsetPastHeader(n, bsize) == NumAdd(NumAdd(BLOCK_START, NumMul(n, bsize)), 8)

\* BLOCK_START + i * blockSize
BlockOffset(n, bsize) == NumAdd(BLOCK_START, NumMul(n, bsize))

\* offset < 0 || offset >= buffer.byteLength
OutOfBuffer(buf, offset) == offset < 0 \/ offset >= buf.size

\* faulty variant: only one leading word of the segment is deducted
FreeListCapacityOneWord(ssize) == (ssize \div 8) - 1

\* faulty variant: the two leading words of the segment are not deducted
FreeListCapacityNoHeader(ssize) == ssize \div 8

\* Math.floor(segmentSize / 8) - 2
FreeListCapacity(ssize) == (ssize \div 8) - 2

\* freeListCount > BigInt(capacity)
CountTooLarge(count, capacity) == capacity < 0 \/ Number(count) > capacity

\* faulty variant: recording a segment forgets every other block's segments
AddUsedIndexDropOthers(map, key, index) ==
  IF key \in DOMAIN map THEN (key :> (map[key] \cup {index}))
  ELSE (key :> {index})

\* faulty variant: the block's set is created anew at every call
AddUsedIndexReset(map, key, index) ==
  IF key \in DOMAIN map THEN [map EXCEPT ![key] = {index}]
  ELSE map @@ (key :> {index})

\* metaBlockUsedIndexes: get-or-create the block's set, add the index.  The
\* key is blockId.toString(), one string per bigint: the bigint stands for it

AddUsedIndex(map, key, index) ==
  IF key \in DOMAIN map THEN [map EXCEPT ![key] = @ \cup {index}]
  ELSE map @@ (key :> {index})

\* faulty variant: used looked up one index too high
MetaSegmentsOffByOne(usedIndexes) ==
  [j \in 1..META_SEGMENTS_PER_BLOCK |-> [used |-> j \in usedIndexes, index |-> j - 1]]

\* faulty variant: one segment too few
MetaSegmentsShort(usedIndexes) ==
  [j \in 1..(META_SEGMENTS_PER_BLOCK - 1) |-> [used |-> (j - 1) \in usedIndexes, index |-> j - 1]]

\* Array.from({ length: 64 }, (_, j) => ({ used: usedIndexes.has(j), index: j }))
MetaSegments(usedIndexes) ==
  [j \in 1..META_SEGMENTS_PER_BLOCK |-> [used |-> (j - 1) \in usedIndexes, index |-> j - 1]]

\* { id: BigInt(i), status: BlockStatus.INVALID }
InvalidBlock(n) == [id |-> BigInt(n), status |-> "invalid"]

\* faulty variant: a block whose checksum read fails keeps its offset
ClassifyBlockKeepOffset(buf, n, bsize, used, free) ==
  LET blockId == BigInt(n)
      offset == BlockOffset(n, bsize)
  IN IF OutOfBuffer(buf, offset) THEN InvalidBlock(n)
     ELSE IF ~CanRead(buf, offset, 0)
          THEN [id |-> blockId, status |-> "invalid", offset |-> offset]
     ELSE LET checksum == getBigUint64(buf, offset)
          IN IF blockId \in DOMAIN used
             THEN [id |-> blockId, status |-> "metadata", offset |-> offset,
                   checksum |-> checksum, metaSegments |-> MetaSegments(used[blockId])]
             ELSE IF blockId \in free
             THEN [id |-> blockId, status |-> "free", offset |-> offset, checksum |-> checksum]
             ELSE [id |-> blockId, status |-> "used", offset |-> offset, checksum |-> checksum]

\* faulty variant: the free set is consulted before the metadata map
ClassifyBlockFreeFirst(buf, n, bsize, used, free) ==
  LET blockId == BigInt(n)
      offset == BlockOffset(n, bsize)
  IN IF OutOfBuffer(buf, offset) THEN InvalidBlock(n)
     ELSE IF ~CanRead(buf, offset, 0) THEN InvalidBlock(n)
     ELSE LET checksum == getBigUint64(buf, offset)
          IN IF blockId \in free
             THEN [id |-> blockId, status |-> "free", offset |-> offset, checksum |-> checksum]
             ELSE IF blockId \in DOMAIN used
             THEN [id |-> blockId, status |-> "metadata", offset |-> offset,
                   checksum |-> checksum, metaSegments |-> MetaSegments(used[blockId])]
             ELSE [id |-> blockId, status |-> "used", offset |-> offset, checksum |-> checksum]

\* one turn of the classification loop: the Block pushed for id n
ClassifyBlock(buf, n, bsize, used, free) ==
  LET blockId == BigInt(n)
      offset == BlockOffset(n, bsize)
  IN IF OutOfBuffer(buf, offset) THEN InvalidBlock(n)
     ELSE IF ~CanRead(buf, offset, 0) THEN InvalidBlock(n)
     ELSE LET checksum == getBigUint64(buf, offset)
          IN IF blockId \in DOMAIN used
             THEN [id |-> blockId, status |-> "metadata", offset |-> offset,
                   checksum |-> checksum, metaSegments |-> MetaSegments(used[blockId])]
             ELSE IF blockId \in free
             THEN [id |-> blockId, status |-> "free", offset |-> offset, checksum |-> checksum]
             ELSE [id |-> blockId, status |-> "used", offset |-> offset, checksum |-> checksum]

-----------------------------------------------------------------------------
(* State                                                                     *)

Null == << >>
EmptyMap == [k \in {} |-> {}]

ErrTooLargeFile == "File size exceeds the maximum limit of 512MB"
ErrTooSmall == "File size is too small for a valid DuckDB file"
ErrFormat == "Invalid DuckDB file format"
ErrVersion == "Unsupported DuckDB version"
ErrFreeListBlock == "Invalid meta block for free list"
ErrFreeListCount == "Free list count is too large"
ErrRange == "RangeError: Offset is outside the bounds of the DataView"

InitLocals ==
  /\ buffer = Null /\ mainHeader = Null /\ dbHeader1 = Null /\ dbHeader2 = Null
  /\ activeHeader = Null /\ blockSize = 0 /\ totalBlocks = 0 /\ segmentSize = 0
  /\ freeBlocks = {} /\ metaBlockUsedIndexes = EmptyMap
  /\ flOffset = 0 /\ freeListCount = Null /\ flIndex = 0 /\ flReads = {}
  /\ currentMetaBlockPointer = Null /\ currentMetaBlockId = Null
  /\ currentMetaBlockIndex = 0 /\ visited = {} /\ walkEnd = None /\ walkTurns = 0
  /\ i = 0 /\ blocks = << >> /\ thrown = None
  /\ fileAnalysis = Null /\ error = None

\* one call of handleFileUpload, nothing shown yet
InitSession ==
  /\ waiting = {} /\ selected = file /\ uploads = 1
  /\ results = << >> /\ shownOffsets = Null

Init ==
  /\ file \in Files
  /\ pc = "upload"
  /\ InitLocals
  /\ InitSession
  /\ ptr = Null /\ decoded = Null /\ versionStr = Null /\ supported = Null

handlerVars == << file, buffer, mainHeader, dbHeader1, dbHeader2, fileAnalysis, error >>
freeListVars == << freeBlocks, flOffset, freeListCount, flIndex, flReads >>
walkVars == << currentMetaBlockPointer, currentMetaBlockId, currentMetaBlockIndex,
               visited, walkEnd, walkTurns >>
enterVars == << activeHeader, blockSize, totalBlocks, segmentSize >>
codecVars == << ptr, decoded, versionStr, supported >>
sessionVars == << waiting, selected, uploads, results >>

Throw(message) == thrown' = message /\ pc' = "catch"

-----------------------------------------------------------------------------
(* handleFileUpload, up to the call of analyzeBlocks                        *)

\* faulty variant: a file of exactly the maximum size is refused
FileTooLargeInclusive(f) == f.size >= MAX_FILE_SIZE

\* faulty variant: two header blocks are enough
BufferTooSmallTwoHeaders(buf) == buf.size < FILE_HEADER_SIZE * 2

\* file.size > DuckDBConstants.MAX_FILE_SIZE
FileTooLarge(f) == f.size > MAX_FILE_SIZE

\* buffer.byteLength < DuckDBConstants.FILE_HEADER_SIZE * 3
BufferTooSmall(buf) == buf.size < FILE_HEADER_SIZE * 3

\* if (file.size > MAX_FILE_SIZE) throw ...; then the read is started
HandleFileUpload ==
  /\ pc = "upload"
  /\ IF FileTooLarge(file)
     THEN Throw(ErrTooLargeFile)
     ELSE pc' = "await" /\ thrown' = thrown
  /\ UNCHANGED << handlerVars, enterVars, freeListVars, walkVars, metaBlockUsedIndexes,
                  i, blocks, codecVars, sessionVars, shownOffsets >>

\* const buffer = await file.arrayBuffer()
ArrayBufferRead ==
  /\ pc = "await"
  /\ buffer' = file
  /\ pc' = "validate"
  /\ UNCHANGED << file, mainHeader, dbHeader1, dbHeader2, fileAnalysis, error, enterVars,
                  freeListVars, walkVars, metaBlockUsedIndexes, i, blocks, thrown, codecVars, sessionVars, shownOffsets >>

\* the size check, parseMainHeader (which throws on the magic) and the
\* version check
Validate ==
  /\ pc = "validate"
  /\ IF BufferTooSmall(buffer)
     THEN Throw(ErrTooSmall) /\ mainHeader' = mainHeader
     ELSE IF DecodeText(buffer, CHECKSUM_SIZE, 4) # MAGIC_BYTES
     THEN Throw(ErrFormat) /\ mainHeader' = mainHeader
     ELSE IF ~isVersionSupported(parseMainHeader(buffer).libraryVersion)
     THEN Throw(ErrVersion) /\ mainHeader' = parseMainHeader(buffer)
     ELSE /\ mainHeader' = parseMainHeader(buffer)
          /\ pc' = "headers"
          /\ thrown' = thrown
  /\ UNCHANGED << file, buffer, dbHeader1, dbHeader2, fileAnalysis, error, enterVars,
                  freeListVars, walkVars, metaBlockUsedIndexes, i, blocks, codecVars, sessionVars, shownOffsets >>

\* the two parseDatabaseHeader calls
ParseDatabaseHeaders ==
  /\ pc = "headers"
  /\ dbHeader1' = parseDatabaseHeader(buffer, FILE_HEADER_SIZE)
  /\ dbHeader2' = parseDatabaseHeader(buffer, FILE_HEADER_SIZE * 2)
  /\ pc' = "ab_enter"
  /\ UNCHANGED << file, buffer, mainHeader, fileAnalysis, error, enterVars, freeListVars,
                  walkVars, metaBlockUsedIndexes, i, blocks, thrown, codecVars, sessionVars, shownOffsets >>

-----------------------------------------------------------------------------
(* analyzeBlocks                                                            *)

\* faulty variant: the free set and the used-index map outlive the call
AnalyzeEnterKeepsMaps ==
  /\ pc = "ab_enter"
  /\ blockSize' = ActiveBlockSize(dbHeader1, dbHeader2)
  /\ activeHeader' = ActiveHeader(dbHeader1, dbHeader2)
  /\ totalBlocks' = Number(activeHeader'.blockCount)
  /\ segmentSize' = SegmentSize(blockSize')
  /\ blocks' = << >>
  /\ pc' = "ab_freelist"
  /\ UNCHANGED << handlerVars, freeListVars, walkVars, metaBlockUsedIndexes, i,
                  thrown, codecVars, sessionVars, shownOffsets >>

\* the declarations before the free list
AnalyzeEnter ==
  /\ pc = "ab_enter"
  /\ blockSize' = ActiveBlockSize(dbHeader1, dbHeader2)
  /\ activeHeader' = ActiveHeader(dbHeader1, dbHeader2)
  /\ totalBlocks' = Number(activeHeader'.blockCount)
  /\ segmentSize' = SegmentSize(blockSize')
  /\ freeBlocks' = {}
  /\ metaBlockUsedIndexes' = EmptyMap
  /\ blocks' = << >>
  /\ pc' = "ab_freelist"
  /\ UNCHANGED << handlerVars, flOffset, freeListCount, flIndex, flReads, walkVars, i,
                  thrown, codecVars, sessionVars, shownOffsets >>

\* if (activeHeader.freeList.pointer !== INVALID_BLOCK): not taken
FreeListAbsent ==
  /\ pc = "ab_freelist"
  /\ activeHeader.freeList.pointer = INVALID_BLOCK
  /\ pc' = "ab_walkinit"
  /\ UNCHANGED << handlerVars, enterVars, freeListVars, walkVars, metaBlockUsedIndexes,
                  i, blocks, thrown, codecVars, sessionVars, shownOffsets >>

\* the free list's own segment is recorded, then located in the buffer
FreeListLocate ==
  /\ pc = "ab_freelist"
  /\ activeHeader.freeList.pointer # INVALID_BLOCK
  /\ LET freeListBlockId == activeHeader.freeList.blockId
         freeListBlockIndex == activeHeader.freeList.blockIndex
         blockOffset == SegmentOffset(freeListBlockId, freeListBlockIndex, blockSize,
                                      segmentSize)
     IN /\ metaBlockUsedIndexes' =
             AddUsedIndex(metaBlockUsedIndexes, freeListBlockId, freeListBlockIndex)
        /\ IF OutOfBuffer(buffer, blockOffset)
           THEN Throw(ErrFreeListBlock) /\ flOffset' = flOffset
           ELSE flOffset' = blockOffset /\ pc' = "ab_flcount" /\ thrown' = thrown
  /\ UNCHANGED << handlerVars, enterVars, freeBlocks, freeListCount, flIndex, flReads,
                  walkVars, i, blocks, codecVars, sessionVars, shownOffsets >>

\* const freeListCount = view.getBigUint64(8, true), and the check of it
FreeListCount ==
  /\ pc = "ab_flcount"
  /\ IF ~CanRead(buffer, flOffset, 8)
     THEN Throw(ErrRange) /\ UNCHANGED << freeListCount, flReads >>
     ELSE /\ freeListCount' = getBigUint64(buffer, flOffset + 8)
          /\ flReads' = flReads \cup {8}
          /\ IF CountTooLarge(freeListCount', FreeListCapacity(segmentSize))
             THEN Throw(ErrFreeListCount)
             ELSE pc' = "ab_flread" /\ thrown' = thrown
  /\ flIndex' = 0
  /\ UNCHANGED << handlerVars, enterVars, freeBlocks, flOffset, walkVars,
                  metaBlockUsedIndexes, i, blocks, codecVars, sessionVars, shownOffsets >>

\* faulty variant: the ids are read from the count's word on
FreeIdOffsetFromCount(n) == 8 + n * 8

\* 16 + i * 8
FreeIdOffset(n) == 16 + n * 8

\* one turn of the loop that reads the free block ids
FreeListReadId ==
  /\ pc = "ab_flread"
  /\ flIndex < Number(freeListCount)
  /\ IF ~CanRead(buffer, flOffset, FreeIdOffset(flIndex))
     THEN Throw(ErrRange) /\ UNCHANGED << freeBlocks, flReads, flIndex >>
     ELSE /\ freeBlocks' = freeBlocks \cup {getBigUint64(buffer, flOffset + FreeIdOffset(flIndex))}
          /\ flReads' = flReads \cup {FreeIdOffset(flIndex)}
          /\ flIndex' = flIndex + 1
          /\ UNCHANGED << pc, thrown >>
  /\ UNCHANGED << handlerVars, enterVars, flOffset, freeListCount, walkVars,
                  metaBlockUsedIndexes, i, blocks, codecVars, sessionVars, shownOffsets >>

FreeListDone ==
  /\ pc = "ab_flread"
  /\ ~(flIndex < Number(freeListCount))
  /\ pc' = "ab_walkinit"
  /\ UNCHANGED << handlerVars, enterVars, freeListVars, walkVars, metaBlockUsedIndexes,
                  i, blocks, thrown, codecVars, sessionVars, shownOffsets >>

\* let currentMetaBlockPointer = activeHeader.metaBlock.pointer; ...
WalkInit ==
  /\ pc = "ab_walkinit"
  /\ currentMetaBlockPointer' = activeHeader.metaBlock.pointer
  /\ currentMetaBlockId' = activeHeader.metaBlock.blockId
  /\ currentMetaBlockIndex' = activeHeader.metaBlock.blockIndex
  /\ pc' = "ab_walk"
  /\ UNCHANGED << handlerVars, enterVars, freeListVars, visited, walkEnd, walkTurns,
                  metaBlockUsedIndexes, i, blocks, thrown, codecVars, sessionVars, shownOffsets >>

\* one turn of the while loop: the segment is recorded, then read; an offset
\* outside the buffer or a failed read is caught and leaves the loop
WalkStep ==
  /\ pc = "ab_walk"
  /\ currentMetaBlockPointer # INVALID_BLOCK
  /\ metaBlockUsedIndexes' =
       AddUsedIndex(metaBlockUsedIndexes, currentMetaBlockId, currentMetaBlockIndex)
  /\ visited' = visited \cup { << currentMetaBlockId, currentMetaBlockIndex >> }
  /\ walkTurns' = 1 - walkTurns
  /\ LET blockOffset == SegmentOffset(currentMetaBlockId, currentMetaBlockIndex,
                                      blockSize, segmentSize)
     IN IF OutOfBuffer(buffer, blockOffset) \/ ~CanRead(buffer, blockOffset, 0)
        THEN /\ walkEnd' = "error"
             /\ pc' = "ab_classify"
             /\ i' = 0
             /\ UNCHANGED << currentMetaBlockPointer, currentMetaBlockId,
                             currentMetaBlockIndex >>
        ELSE LET nextBlockPointer == getBigUint64(buffer, blockOffset)
             IN /\ currentMetaBlockPointer' = nextBlockPointer
                /\ currentMetaBlockId' = getBlockId(nextBlockPointer)
                /\ currentMetaBlockIndex' = getBlockIndex(nextBlockPointer)
                /\ UNCHANGED << walkEnd, pc, i >>
  /\ UNCHANGED << handlerVars, enterVars, freeListVars, blocks, thrown, codecVars, sessionVars, shownOffsets >>

\* the while condition fails: the pointer is the sentinel
WalkDone ==
  /\ pc = "ab_walk"
  /\ currentMetaBlockPointer = INVALID_BLOCK
  /\ walkEnd' = "sentinel"
  /\ pc' = "ab_classify"
  /\ i' = 0
  /\ UNCHANGED << handlerVars, enterVars, freeListVars, currentMetaBlockPointer,
                  currentMetaBlockId, currentMetaBlockIndex, visited, walkTurns,
                  metaBlockUsedIndexes, blocks, thrown, codecVars, sessionVars, shownOffsets >>

\* one turn of the for loop
ClassifyStep ==
  /\ pc = "ab_classify"
  /\ i < totalBlocks
  /\ blocks' = Append(blocks, ClassifyBlock(buffer, i, blockSize, metaBlockUsedIndexes,
                                            freeBlocks))
  /\ i' = i + 1
  /\ UNCHANGED << handlerVars, enterVars, freeListVars, walkVars, metaBlockUsedIndexes,
                  pc, thrown, codecVars, sessionVars, shownOffsets >>

\* return blocks
AnalyzeReturn ==
  /\ pc = "ab_classify"
  /\ ~(i < totalBlocks)
  /\ pc' = "finish"
  /\ UNCHANGED << handlerVars, enterVars, freeListVars, walkVars, metaBlockUsedIndexes,
                  i, blocks, thrown, codecVars, sessionVars, shownOffsets >>

-----------------------------------------------------------------------------
(* handleFileUpload, after analyzeBlocks                                    *)

\* setFileAnalysis({ ... }); setError(null)
UploadSucceeds ==
  /\ pc = "finish"
  /\ fileAnalysis' = << [ mainHeader   |-> mainHeader,
                          dbHeader1    |-> dbHeader1,
                          dbHeader2    |-> dbHeader2,
                          blocks       |-> blocks,
                          blockSize    |-> ActiveBlockSize(dbHeader1, dbHeader2),
                          activeHeader |-> ActiveHeader(dbHeader1, dbHeader2) ] >>
  /\ error' = None
  /\ pc' = "done"
  /\ results' = (file :> << fileAnalysis', error' >>) @@ results
  /\ shownOffsets' = Null
  /\ UNCHANGED << file, buffer, mainHeader, dbHeader1, dbHeader2, enterVars, freeListVars,
                  walkVars, metaBlockUsedIndexes, i, blocks, thrown, codecVars,
                  waiting, selected, uploads >>

\* faulty variant: the catch sets the error and leaves the analysis
UploadFailsKeepsAnalysis ==
  /\ pc = "catch"
  /\ error' = thrown
  /\ fileAnalysis' = fileAnalysis
  /\ pc' = "done"
  /\ results' = (file :> << fileAnalysis', error' >>) @@ results
  /\ shownOffsets' = Null
  /\ UNCHANGED << file, buffer, mainHeader, dbHeader1, dbHeader2, enterVars, freeListVars,
                  walkVars, metaBlockUsedIndexes, i, blocks, thrown, codecVars,
                  waiting, selected, uploads >>

\* catch (err): setError(err.message); setFileAnalysis(null)
UploadFails ==
  /\ pc = "catch"
  /\ error' = thrown
  /\ fileAnalysis' = Null
  /\ pc' = "done"
  /\ results' = (file :> << fileAnalysis', error' >>) @@ results
  /\ shownOffsets' = Null
  /\ UNCHANGED << file, buffer, mainHeader, dbHeader1, dbHeader2, enterVars, freeListVars,
                  walkVars, metaBlockUsedIndexes, i, blocks, thrown, codecVars,
                  waiting, selected, uploads >>

\* BlockVisualizer: segmentSize = blockSize / META_SEGMENTS_PER_BLOCK, and the
\* title's block.offset + segmentSize * segment.index, as a whole number of
\* bytes and a number of 64ths
SegmentTitleOffset(block, bsize, index) ==
  [ whole  |-> block.offset + (bsize * index) \div META_SEGMENTS_PER_BLOCK,
    frac64 |-> (bsize * index) % META_SEGMENTS_PER_BLOCK ]

\* the titles of the segments of every METADATA block, by position in blocks
SegmentTitles(blks, bsize) ==
  [ k \in { n \in 1..Len(blks) : blks[n].status = "metadata" } |->
      [ j \in 1..Len(blks[k].metaSegments) |->
          SegmentTitleOffset(blks[k], bsize, blks[k].metaSegments[j].index) ] ]

\* Home renders BlockVisualizer with the analysis it holds
Render ==
  /\ pc = "done"
  /\ fileAnalysis # Null
  /\ shownOffsets = Null
  /\ shownOffsets' = << SegmentTitles(fileAnalysis[1].blocks, fileAnalysis[1].blockSize) >>
  /\ UNCHANGED << handlerVars, enterVars, freeListVars, walkVars, metaBlockUsedIndexes,
                  i, blocks, pc, thrown, codecVars, sessionVars >>

Next ==
  \/ HandleFileUpload
  \/ ArrayBufferRead
  \/ Validate
  \/ ParseDatabaseHeaders
  \/ AnalyzeEnter
  \/ FreeListAbsent
  \/ FreeListLocate
  \/ FreeListCount
  \/ FreeListReadId
  \/ FreeListDone
  \/ WalkInit
  \/ WalkStep
  \/ WalkDone
  \/ ClassifyStep
  \/ AnalyzeReturn
  \/ UploadSucceeds
  \/ UploadFails
  \/ Render

Spec == Init /\ [][Next]_vars

-----------------------------------------------------------------------------
(* The pointer codec on its own: every pointer of Pointers is decoded       *)

ByteSamples == { 0, 1, 63, 128, 255 }

\* pointers whose index byte and id bytes take every sample
Pointers ==
  { << a, b, 0, 0, 0, c, d, e >> : a \in ByteSamples, b \in ByteSamples, c \in ByteSamples,
                                   d \in ByteSamples, e \in ByteSamples }

InitCodec ==
  /\ ptr \in Pointers
  /\ decoded = Null
  /\ versionStr = Null /\ supported = Null
  /\ pc = "codec"
  /\ file = [size |-> 0, mem |-> EmptyMem]
  /\ InitLocals
  /\ InitSession

\* getBlockId(ptr) and getBlockIndex(ptr)
Decode ==
  /\ pc = "codec"
  /\ decoded = Null
  /\ decoded' = << [blockId |-> getBlockId(ptr), blockIndex |-> getBlockIndex(ptr)] >>
  /\ UNCHANGED << pc, ptr, versionStr, supported, handlerVars, enterVars, freeListVars,
                  walkVars, metaBlockUsedIndexes, i, blocks, thrown, sessionVars,
                  shownOffsets >>

NextCodec == Decode

SpecCodec == InitCodec /\ [][NextCodec]_vars

-----------------------------------------------------------------------------
(* isVersionSupported on its own: every string of VersionStrings is checked *)

\* "", "v", "V", "vv"
VersionPrefixes == { << >>, << 118 >>, << 86 >>, << 118, 118 >> }
\* "", "0", "1", "2", "01", "10"
VersionMajors == { << >>, << 48 >>, << 49 >>, << 50 >>, << 48, 49 >>, << 49, 48 >> }
\* "", "0", "1", "2", "3", "10", "02"
VersionMinors ==
  { << >>, << 48 >>, << 49 >>, << 50 >>, << 51 >>, << 49, 48 >>, << 48, 50 >> }
\* "", "0", "9", "18"
VersionPatches == { << >>, << 48 >>, << 57 >>, << 49, 56 >> }
\* ".", "", "x"
VersionSeparators == { << 46 >>, << >>, << 120 >> }
\* "", "e52", ".1", "-rc", "7"
VersionSuffixes ==
  { << >>, << 101, 53, 50 >>, << 46, 49 >>, << 45, 114, 99 >>, << 55 >> }

\* version strings and every way of spoiling one
VersionStrings ==
  { pre \o major \o sep1 \o minor \o sep2 \o patch \o suf :
      pre \in VersionPrefixes, major \in VersionMajors, sep1 \in VersionSeparators,
      minor \in VersionMinors, sep2 \in { << 46 >>, << >> }, patch \in VersionPatches,
      suf \in VersionSuffixes }

InitVersion ==
  /\ versionStr \in { << v >> : v \in VersionStrings }
  /\ supported = Null
  /\ ptr = Null /\ decoded = Null
  /\ pc = "version"
  /\ file = [size |-> 0, mem |-> EmptyMem]
  /\ InitLocals
  /\ InitSession

\* isVersionSupported(versionStr)
CheckVersion ==
  /\ pc = "version"
  /\ supported = Null
  /\ supported' = << isVersionSupported(versionStr[1]) >>
  /\ UNCHANGED << pc, ptr, decoded, versionStr, handlerVars, enterVars, freeListVars,
                  walkVars, metaBlockUsedIndexes, i, blocks, thrown, sessionVars,
                  shownOffsets >>

NextVersion == CheckVersion

SpecVersion == InitVersion /\ [][NextVersion]_vars

-----------------------------------------------------------------------------
(* Properties                                                                *)

HandlerErrors == { ErrTooLargeFile, ErrTooSmall, ErrFormat, ErrVersion }

\* the upload has completed for a file that passed the format and version checks
DecodedFile == pc = "done" /\ thrown \notin HandlerErrors

\* the header the iteration comparison selects, written out
SelectedHeader ==
  IF BigGt(dbHeader1.iteration, dbHeader2.iteration) THEN dbHeader1 ELSE dbHeader2

\* C1: for every file that passes the format and version checks, decoding
\* yields a blocks array of length blockCount of the active header, with
\* blocks[i].id = i.
C1_BlocksForEveryCheckedFile ==
  DecodedFile =>
    /\ fileAnalysis # Null
    /\ Len(fileAnalysis[1].blocks) = Number(SelectedHeader.blockCount)
    /\ \A k \in 1..Len(fileAnalysis[1].blocks) : fileAnalysis[1].blocks[k].id = BigInt(k - 1)

\* C2: analyzeBlocks takes metaBlock, freeList, blockCount and blockAllocSize
\* from one header, header 1 if iteration1 > iteration2 and header 2
\* otherwise (also when they are equal), and the handler displays that
\* header and its block size.
C2_ActiveHeaderIsSelectedHeader ==
  /\ pc \in { "ab_freelist", "ab_flcount", "ab_flread", "ab_walkinit", "ab_walk",
              "ab_classify", "finish" } =>
       /\ activeHeader = SelectedHeader
       /\ blockSize = Number(SelectedHeader.blockAllocSize)
       /\ totalBlocks = Number(SelectedHeader.blockCount)
       /\ segmentSize = ((Number(SelectedHeader.blockAllocSize) - 8) \div 512) * 8
  /\ pc \in { "ab_flcount", "ab_flread" } =>
       /\ SelectedHeader.freeList.blockId \in DOMAIN metaBlockUsedIndexes
       /\ flOffset = BLOCK_START
                     + Number(SelectedHeader.freeList.blockId) * Number(SelectedHeader.blockAllocSize)
                     + 8 + SelectedHeader.freeList.blockIndex * segmentSize
  /\ pc \in { "ab_walk", "ab_classify", "finish" } /\ visited # {} =>
       << SelectedHeader.metaBlock.blockId, SelectedHeader.metaBlock.blockIndex >> \in visited
  /\ pc \in { "ab_classify", "finish" } /\ visited = {} =>
       SelectedHeader.metaBlock.pointer = INVALID_BLOCK
  /\ pc \in { "ab_classify", "finish" } => Len(blocks) <= Number(SelectedHeader.blockCount)
  /\ pc = "done" /\ fileAnalysis # Null =>
       /\ fileAnalysis[1].activeHeader = SelectedHeader
       /\ fileAnalysis[1].blockSize = Number(SelectedHeader.blockAllocSize)
       /\ Len(fileAnalysis[1].blocks) = Number(SelectedHeader.blockCount)

\* equal iterations, headers that differ in every field used: header 2 shown
C2_Witness ==
  /\ pc = "done"
  /\ fileAnalysis # Null
  /\ dbHeader1.iteration = dbHeader2.iteration
  /\ dbHeader1.blockAllocSize # dbHeader2.blockAllocSize
  /\ dbHeader1.blockCount # dbHeader2.blockCount
  /\ fileAnalysis[1].activeHeader = dbHeader2
  /\ fileAnalysis[1].blockSize = Number(dbHeader2.blockAllocSize)

\* C3: for every 64-bit pointer p, getBlockId(p) is below 2^56,
\* getBlockIndex(p) is in 0..255, and getBlockId(p) | (getBlockIndex(p) << 56)
\* is p again.
C3_CodecRoundTrip ==
  decoded # Null =>
    /\ \A k \in WordIdx : decoded[1].blockId[k] \in Byte
    /\ decoded[1].blockId[8] = 0
    /\ decoded[1].blockIndex \in 0..255
    /\ BigOr(decoded[1].blockId, BigShlBytes(BigInt(decoded[1].blockIndex), 7)) = ptr

\* a pointer with index bits and id bits set has been decoded
C3_Witness ==
  /\ decoded # Null
  /\ ptr[8] = 255
  /\ ptr[7] = 255
  /\ ptr[1] = 1
  /\ decoded[1].blockIndex = 255

-----------------------------------------------------------------------------
(* The metadata chain of a buffer, as the file format defines it: followed  *)
(* from pointer p through at most `fuel` segments.  ok: the chain ended     *)
(* with the all-ones pointer, every link having been in the buffer.         *)

RECURSIVE FollowChain(_, _, _, _, _)
FollowChain(buf, p, bsize, segs, fuel) ==
  IF p = INVALID_BLOCK THEN [ok |-> TRUE, segs |-> segs]
  ELSE IF fuel = 0 THEN [ok |-> FALSE, segs |-> segs]
  ELSE LET id == [p EXCEPT ![8] = 0]
           at == NumAdd(NumAdd(BLOCK_START + 8, NumMul(Number(id), bsize)),
                        p[8] * (((bsize - 8) \div 512) * 8))
       IN IF at < 0 \/ at + 8 > buf.size THEN [ok |-> FALSE, segs |-> segs]
          ELSE FollowChain(buf, [k \in WordIdx |-> ReadByte(buf, at + k - 1)], bsize,
                           segs \cup { << id, p[8] >> }, fuel - 1)

\* the chain of the uploaded file's selected header
FileChain ==
  FollowChain(buffer, SelectedHeader.metaBlock.pointer,
              Number(SelectedHeader.blockAllocSize), {}, MaxChain + 1)

\* analyzeBlocks has returned its array to the handler
Returned == pc = "finish" \/ (pc = "done" /\ fileAnalysis # Null)

\* the chain is non-empty, ends with the sentinel and lies in block b, at
\* indices below 64; the free-list pointer is the sentinel
ChainInOneBlock(b) ==
  /\ SelectedHeader.freeList.pointer = INVALID_BLOCK
  /\ FileChain.ok
  /\ FileChain.segs # {}
  /\ b < Number(SelectedHeader.blockCount)
  /\ \A seg \in FileChain.segs : seg[1] = BigInt(b) /\ seg[2] < 64

ChecksumReadable(n) ==
  BLOCK_START + n * Number(SelectedHeader.blockAllocSize) + 8 <= buffer.size

MetadataWithSegments(block, b) ==
  /\ block.status = "metadata"
  /\ \A j \in 0..63 : block.metaSegments[j + 1].used <=> (<< BigInt(b), j >> \in FileChain.segs)

\* C4 as claimed: with the chain in one block b and no free list, b is the
\* only METADATA block, its used segments are exactly the chained ones, and
\* every other block in [0, blockCount) is USED.
C4_OthersAllUsed ==
  Returned =>
    \A b \in 0..(MaxBlocks + 1) :
      ChainInOneBlock(b) =>
        /\ Len(blocks) = Number(SelectedHeader.blockCount)
        /\ \A k \in 1..Len(blocks) :
             IF k - 1 = b THEN MetadataWithSegments(blocks[k], b)
             ELSE blocks[k].status = "used"

\* C4 amended: ... and every other block in [0, blockCount) is USED when its
\* 8-byte checksum lies inside the buffer, and INVALID when it does not.
C4_OthersUsedWhereReadable ==
  Returned =>
    \A b \in 0..(MaxBlocks + 1) :
      ChainInOneBlock(b) =>
        /\ Len(blocks) = Number(SelectedHeader.blockCount)
        /\ \A k \in 1..Len(blocks) :
             IF k - 1 = b THEN MetadataWithSegments(blocks[k], b)
             ELSE IF ChecksumReadable(k - 1) THEN blocks[k].status = "used"
             ELSE blocks[k].status = "invalid"

\* a chain of three segments of block 1 has been decoded, one other block
\* being USED and one INVALID
C4_Witness ==
  /\ pc = "done"
  /\ fileAnalysis # Null
  /\ ChainInOneBlock(1)
  /\ Cardinality(FileChain.segs) = 3
  /\ Len(blocks) = 3
  /\ blocks[1].status = "used"
  /\ blocks[2].status = "metadata"
  /\ blocks[3].status = "invalid"

\* C5: in every array analyzeBlocks returns, a METADATA block has exactly 64
\* metaSegments with metaSegments[j].index = j, and a block of any other
\* status has no metaSegments.
C5_MetaSegmentsShape ==
  Returned =>
    \A k \in 1..Len(blocks) :
      IF blocks[k].status = "metadata"
      THEN /\ "metaSegments" \in DOMAIN blocks[k]
           /\ Len(blocks[k].metaSegments) = 64
           /\ \A j \in 0..63 : blocks[k].metaSegments[j + 1].index = j
      ELSE /\ "metaSegments" \notin DOMAIN blocks[k]
           /\ blocks[k].status \in { "free", "used", "invalid" }

\* an array with a METADATA block and a FREE, a USED or an INVALID one
C5_Witness ==
  /\ pc = "done"
  /\ fileAnalysis # Null
  /\ \E k \in 1..Len(blocks) : blocks[k].status = "metadata"
  /\ \E k \in 1..Len(blocks) : blocks[k].status = "free"
  /\ \E k \in 1..Len(blocks) : blocks[k].status = "used"

HasUsedSegment(block) ==
  block.status = "metadata" /\ \E j \in 1..Len(block.metaSegments) : block.metaSegments[j].used

CountOverCapacity ==
  freeListCount # Null /\ Number(freeListCount) > (segmentSize \div 8) - 2

\* C7: when the count stored at byte 8 of the free-list segment exceeds
\* floor(segmentSize/8) - 2, analyzeBlocks raises 'Free list count is too
\* large' having read nothing of the segment but the count (no free-block
\* id, nothing at byte 16 or beyond) and nothing outside the buffer.
C7_TooLargeRaisedBeforeAnyIdRead ==
  /\ CountOverCapacity =>
       /\ thrown = ErrFreeListCount
       /\ pc \in { "catch", "done" }
       /\ flReads = { 8 }
       /\ freeBlocks = {}
       /\ blocks = << >>
  /\ \A r \in flReads : flOffset + r >= 0 /\ flOffset + r + 8 <= buffer.size

\* a count of 6, one more than a 56-byte segment holds, has been refused
C7_Witness ==
  /\ pc = "done"
  /\ error = ErrFreeListCount
  /\ segmentSize = 56
  /\ freeListCount = BigInt(6)
  /\ flReads = { 8 }

\* C8: a free-list count over the capacity is fatal to free-list parsing
\* only: the metadata chain is still walked and all blockCount blocks are
\* classified and returned.
C8_TooLargeStillClassifies ==
  pc = "done" /\ CountOverCapacity =>
    /\ walkEnd # None
    /\ fileAnalysis # Null
    /\ Len(blocks) = Number(SelectedHeader.blockCount)

\* the free-list pointer of the selected header is not the sentinel and leads
\* outside the buffer, or to a segment whose count, or one of whose ids, the
\* buffer's end cuts off
FreeListOutOfBounds ==
  LET bsize == Number(SelectedHeader.blockAllocSize)
      ssize == ((bsize - 8) \div 512) * 8
      at == NumAdd(NumAdd(BLOCK_START + 8, NumMul(Number(SelectedHeader.freeList.blockId), bsize)),
                   SelectedHeader.freeList.blockIndex * ssize)
      count == Number([k \in WordIdx |-> ReadByte(buffer, at + 8 + k - 1)])
  IN /\ SelectedHeader.freeList.pointer # INVALID_BLOCK
     /\ \/ at < 0
        \/ at >= buffer.size
        \/ at + 16 > buffer.size
        \/ count <= (ssize \div 8) - 2 /\ at + 16 + 8 * count > buffer.size

\* C9: an out-of-bounds offset or read met in the free list is recoverable:
\* analyzeBlocks does not throw, and still returns blockCount classified
\* blocks.
C9_FreeListOutOfBoundsRecovered ==
  DecodedFile /\ FreeListOutOfBounds =>
    /\ error = None
    /\ fileAnalysis # Null
    /\ Len(blocks) = Number(SelectedHeader.blockCount)

\* C10: in the classification loop a block whose offset is outside the
\* buffer, or whose 8-byte checksum read fails, is recorded as INVALID with
\* no offset and no checksum, and the loop goes on: it never throws and the
\* array returned has blockCount entries, blocks[n].id = n.
C10_UnreadableBlocksAreInvalid ==
  /\ \A k \in 1..Len(blocks) :
       /\ blocks[k].id = BigInt(k - 1)
       /\ ~ChecksumReadable(k - 1) =>
            /\ blocks[k].status = "invalid"
            /\ DOMAIN blocks[k] = { "id", "status" }
       /\ blocks[k].status = "invalid" => ~ChecksumReadable(k - 1)
  /\ pc = "ab_classify" => Len(blocks) = i /\ i <= totalBlocks /\ thrown = None
  /\ Returned => Len(blocks) = totalBlocks /\ thrown = None
  /\ pc \in { "catch", "done" } /\ thrown # None => blocks = << >>

\* an array with a classified block, then one whose checksum the end of the
\* buffer cuts, has been returned
C10_Witness ==
  /\ pc = "done"
  /\ fileAnalysis # Null
  /\ Len(blocks) >= 2
  /\ blocks[Len(blocks)].status = "invalid"
  /\ blocks[Len(blocks) - 1].status # "invalid"
  /\ BLOCK_START + (Len(blocks) - 1) * blockSize < buffer.size

\* the two free-list errors of analyzeBlocks are raised on exactly the files
\* FreeListOutOfBounds describes
FreeListErrorsMatch ==
  DecodedFile => (FreeListOutOfBounds <=> thrown \in { ErrFreeListBlock, ErrRange })

-----------------------------------------------------------------------------
(* The chain walk meets a segment outside the buffer                        *)

\* the walk was left through its catch: the segment it stands on lies
\* outside the buffer, or the 8 bytes of its link do
WalkAbandoned == Returned /\ walkEnd = "error"

\* the block array shows segment seg as used
ReportedUsed(seg) ==
  \E k \in 1..Len(blocks) :
    /\ blocks[k].id = seg[1]
    /\ blocks[k].status = "metadata"
    /\ seg[2] < 64
    /\ blocks[k].metaSegments[seg[2] + 1].used

-----------------------------------------------------------------------------
(* The version rule, written out on the characters of the string            *)

\* every position of s from a to b holds a decimal digit, and there is one
AllDigits(s, a, b) == a <= b /\ \A k \in a..b : s[k] >= 48 /\ s[k] <= 57

\* the number the digits s[a..b] write
RECURSIVE Decimal(_, _, _)
Decimal(s, a, b) == IF b < a THEN 0 ELSE (s[b] - 48) + 10 * Decimal(s, a, b - 1)

\* s is 'v', digits, '.', digits, '.', digits and then anything, the three
\* numbers being at least (1, 2, 0) in lexicographic order
AtLeast120(s) ==
  \E d1, d2, e \in 1..Len(s) :
    /\ s[1] = 118
    /\ AllDigits(s, 2, d1 - 1) /\ s[d1] = 46
    /\ AllDigits(s, d1 + 1, d2 - 1) /\ s[d2] = 46
    /\ AllDigits(s, d2 + 1, e)
    /\ LET major == Decimal(s, 2, d1 - 1)
           minor == Decimal(s, d1 + 1, d2 - 1)
           patch == Decimal(s, d2 + 1, e)
       IN \/ major > 1
          \/ major = 1 /\ minor > 2
          \/ major = 1 /\ minor = 2 /\ patch >= 0

\* C14: isVersionSupported(s) is true exactly when s is 'v' followed by
\* decimal major.minor.patch with (major, minor, patch) at least (1, 2, 0),
\* whatever follows the patch digits; it is false for the empty string and
\* for a string without the 'v', and it always returns a boolean.
C14_VersionSupportedExactlyFrom120 ==
  supported # Null =>
    /\ supported[1] \in BOOLEAN
    /\ supported[1] <=> AtLeast120(versionStr[1])
    /\ versionStr[1] = << >> => supported[1] = FALSE
    /\ versionStr[1] # << >> /\ versionStr[1][1] # 118 => supported[1] = FALSE

\* "v1.2.0e52" has been accepted
C14_Witness ==
  /\ supported = << TRUE >>
  /\ versionStr = << << 118, 49, 46, 50, 46, 48, 101, 53, 50 >> >>

-----------------------------------------------------------------------------
(* The checks of handleFileUpload                                           *)

\* a value that has not been assigned (null)
Unset(x) == DOMAIN x = {}

\* nothing of the file has been parsed or analysed
NothingParsed ==
  /\ Unset(mainHeader) /\ Unset(dbHeader1) /\ Unset(dbHeader2)
  /\ Unset(activeHeader) /\ blocks = << >> /\ i = 0

\* nothing is shown but the error message
OnlyErrorShown(message) ==
  /\ thrown = message
  /\ pc \in { "catch", "done" }
  /\ fileAnalysis = Null
  /\ pc = "done" => error = message

\* the upload has passed the statement that tests the buffer's length
PastSizeCheck == pc \notin { "upload", "await", "validate" }

\* C15: a buffer shorter than 3 x 4096 bytes is rejected with 'File size is
\* too small' before parseMainHeader, parseDatabaseHeader or analyzeBlocks
\* is invoked.
C15_TooSmallRejectedBeforeParsing ==
  PastSizeCheck /\ file.size < 3 * 4096 =>
    /\ OnlyErrorShown(ErrTooSmall)
    /\ NothingParsed

\* a file one byte short of three header blocks has been turned away
C15_Witness ==
  /\ pc = "done"
  /\ file.size = 3 * 4096 - 1
  /\ error = ErrTooSmall
  /\ NothingParsed

\* bytes 8..11 of the file are not "DUCK"
BadMagic == << ReadByte(file, 8), ReadByte(file, 9), ReadByte(file, 10), ReadByte(file, 11) >>
              # << 68, 85, 67, 75 >>

\* the 64 bytes at 52 without their trailing NULs
LibraryVersionBytes ==
  LET raw == [k \in 1..64 |-> ReadByte(file, 51 + k)]
      last == IF \A k \in 1..64 : raw[k] = 0 THEN 0
              ELSE CHOOSE k \in 1..64 : raw[k] # 0 /\ \A j \in (k + 1)..64 : raw[j] = 0
  IN SubSeq(raw, 1, last)

\* the file passes both size checks
SizeAccepted == file.size >= 3 * 4096 /\ file.size <= 512 * 1024 * 1024

\* C16: a file whose magic bytes are not 'DUCK', or whose library version
\* is not supported, never reaches parseDatabaseHeader or analyzeBlocks: the
\* handler ends with fileAnalysis null and the error 'Invalid DuckDB file
\* format', respectively 'Unsupported DuckDB version'.
C16_FormatAndVersionErrorsShowNothing ==
  PastSizeCheck /\ SizeAccepted /\ (BadMagic \/ ~AtLeast120(LibraryVersionBytes)) =>
    /\ OnlyErrorShown(IF BadMagic THEN ErrFormat ELSE ErrVersion)
    /\ Unset(dbHeader1) /\ Unset(dbHeader2)
    /\ Unset(activeHeader) /\ blocks = << >> /\ i = 0

\* a file of version "v1.1.9" with the right magic bytes has been refused
C16_Witness ==
  /\ pc = "done"
  /\ ~BadMagic
  /\ LibraryVersionBytes = << 118, 49, 46, 49, 46, 57 >>
  /\ error = ErrVersion
  /\ fileAnalysis = Null
  /\ Unset(dbHeader1)

\* C17: a file whose reported size is greater than 512 x 1024 x 1024 bytes
\* is rejected with 'File size exceeds the maximum limit of 512MB' before
\* its contents are read or parsed; a file of exactly that size passes the
\* check and is read.
C17_OversizeRejectedBeforeReading ==
  /\ pc # "upload" /\ file.size > 512 * 1024 * 1024 =>
       /\ OnlyErrorShown(ErrTooLargeFile)
       /\ Unset(buffer)
       /\ NothingParsed
  /\ pc # "upload" /\ file.size = 512 * 1024 * 1024 =>
       /\ thrown # ErrTooLargeFile
       /\ pc # "await" => buffer = file

\* a file of 512 MB and one byte has been turned away unread
C17_Witness ==
  /\ pc = "done"
  /\ file.size = 512 * 1024 * 1024 + 1
  /\ error = ErrTooLargeFile
  /\ Unset(buffer)

-----------------------------------------------------------------------------
(* Status precedence                                                        *)

\* the block ids recorded by the chain walk, and the free list's host block
RecordedIds ==
  { seg[1] : seg \in visited }
    \cup (IF SelectedHeader.freeList.pointer = INVALID_BLOCK THEN {}
          ELSE { SelectedHeader.freeList.blockId })

\* METADATA before FREE before USED
StatusByPrecedence(id) ==
  IF id \in RecordedIds THEN "metadata"
  ELSE IF id \in freeBlocks THEN "free"
  ELSE "used"

\* C13 as claimed: every block in [0, blockCount) has the one status the
\* precedence METADATA, FREE, USED gives it.
C13_StatusByPrecedence ==
  Returned =>
    /\ Len(blocks) = Number(SelectedHeader.blockCount)
    /\ \A k \in 1..Len(blocks) :
         /\ blocks[k].id = BigInt(k - 1)
         /\ blocks[k].status = StatusByPrecedence(BigInt(k - 1))

\* C13 amended: every block in [0, blockCount) has exactly one status:
\* INVALID if its 8-byte checksum does not lie inside the buffer, and
\* otherwise the one the precedence METADATA, FREE, USED gives it.
C13_StatusByPrecedenceWhereReadable ==
  Returned =>
    /\ Len(blocks) = Number(SelectedHeader.blockCount)
    /\ \A k \in 1..Len(blocks) :
         /\ blocks[k].id = BigInt(k - 1)
         /\ blocks[k].status =
              IF ChecksumReadable(k - 1) THEN StatusByPrecedence(BigInt(k - 1))
              ELSE "invalid"

\* a block that is in the free set and holds a chained segment is METADATA,
\* beside a FREE block
C13_Witness ==
  /\ pc = "done"
  /\ fileAnalysis # Null
  /\ \E k \in 1..Len(blocks) :
       /\ blocks[k].id \in freeBlocks
       /\ \E seg \in visited : seg[1] = blocks[k].id
       /\ blocks[k].status = "metadata"
  /\ \E k \in 1..Len(blocks) : blocks[k].status = "free"

-----------------------------------------------------------------------------
(* The free list                                                            *)

\* where the selected header's free-list pointer leads in the buffer
FreeListAt ==
  LET bsize == Number(SelectedHeader.blockAllocSize)
  IN NumAdd(NumAdd(BLOCK_START + 8, NumMul(Number(SelectedHeader.freeList.blockId), bsize)),
            SelectedHeader.freeList.blockIndex * (((bsize - 8) \div 512) * 8))

\* the free list has a host block the array can show: the pointer is not
\* the sentinel, the block id is below blockCount, the block's checksum and
\* the first byte of the free list's segment lie inside the buffer
HostInRange ==
  /\ SelectedHeader.freeList.pointer # INVALID_BLOCK
  /\ Number(SelectedHeader.freeList.blockId) < Number(SelectedHeader.blockCount)
  /\ ChecksumReadable(Number(SelectedHeader.freeList.blockId))
  /\ FreeListAt >= 0 /\ FreeListAt < buffer.size

\* the host block is METADATA, the free list's segment marked used if its
\* index is below 64
HostReported ==
  \E k \in 1..Len(blocks) :
    /\ blocks[k].id = SelectedHeader.freeList.blockId
    /\ blocks[k].status = "metadata"
    /\ SelectedHeader.freeList.blockIndex < 64 =>
         blocks[k].metaSegments[SelectedHeader.freeList.blockIndex + 1].used

\* C18: when the free-list pointer is not the sentinel, the free list's
\* host block, if its id is below blockCount and its offset is in bounds,
\* is reported METADATA with the free list's segment marked used (if the
\* index is below 64), whether or not the chain visits the block.
C18_FreeListHostReported ==
  DecodedFile /\ HostInRange =>
    /\ fileAnalysis # Null
    /\ HostReported

\* the same, of the arrays analyzeBlocks returns
FreeListHostReportedWhenReturned == Returned /\ HostInRange => HostReported

\* the 64-bit value the buffer holds at byte `at`
StoredWord(at) == [k \in WordIdx |-> ReadByte(buffer, at + k - 1)]

\* the count at byte 8 of the free list's segment, as the buffer holds it
StoredCount == Number(StoredWord(FreeListAt + 8))

\* the free list can be read whole and its count is within the cap
FreeListReadable ==
  /\ SelectedHeader.freeList.pointer # INVALID_BLOCK
  /\ FreeListAt >= 0 /\ FreeListAt + 16 <= buffer.size
  /\ StoredCount <= ((((Number(SelectedHeader.blockAllocSize) - 8) \div 512) * 8) \div 8) - 2
  /\ FreeListAt + 16 + 8 * StoredCount <= buffer.size

\* the ids at bytes 16, 24, ..., 16 + 8(c - 1) of the segment
StoredIds == { StoredWord(FreeListAt + 16 + 8 * j) : j \in 0..(StoredCount - 1) }

\* C19: with a readable free list whose count c is within the cap, the free
\* set is exactly the c ids at bytes 16, 24, ..., 16 + 8(c-1) of the free
\* list's first segment, nothing else of the list being read, and the FREE
\* blocks are exactly the ids in [0, blockCount) that are in this set, were
\* not recorded as metadata and have a readable checksum.
C19_FreeSetIsTheStoredIds ==
  DecodedFile /\ FreeListReadable =>
    /\ fileAnalysis # Null
    /\ freeBlocks = StoredIds
    /\ flReads = {8} \cup { 16 + 8 * j : j \in 0..(StoredCount - 1) }
    /\ Len(blocks) = Number(SelectedHeader.blockCount)
    /\ \A k \in 1..Len(blocks) :
         blocks[k].status = "free" <=>
           /\ BigInt(k - 1) \in StoredIds
           /\ BigInt(k - 1) \notin RecordedIds
           /\ ChecksumReadable(k - 1)

\* a list of five ids, two of them repeated: block 0 is FREE, a listed
\* block that holds metadata is not
C19_Witness ==
  /\ pc = "done"
  /\ fileAnalysis # Null
  /\ FreeListReadable
  /\ StoredCount = 5
  /\ freeBlocks = { BigInt(0), BigInt(1), BigInt(2) }
  /\ blocks[1].status = "free"
  /\ \E k \in 1..Len(blocks) : blocks[k].id \in freeBlocks /\ blocks[k].status = "metadata"

\* the count was read and the cap check let it pass
CountAccepted == freeListCount # Null /\ thrown # ErrFreeListCount

\* C20: for every count c the cap check accepts, 16 + 8c <= segmentSize,
\* and every read of the count and of the ids ends inside the free list's
\* own segment.
C20_AcceptedCountFitsTheSegment ==
  CountAccepted =>
    /\ 16 + 8 * Number(freeListCount) <= segmentSize
    /\ \A r \in flReads : r >= 8 /\ r + 8 <= segmentSize

\* 509 ids, all that a 4088-byte segment holds, have been read
C20_Witness ==
  /\ pc = "done"
  /\ fileAnalysis # Null
  /\ segmentSize = 4088
  /\ freeListCount = BigInt(509)
  /\ Cardinality(flReads) = 510
  /\ 4080 \in flReads

-----------------------------------------------------------------------------
(* Termination                                                              *)

\* uploads for the termination check: whole files with every chain of fewer
\* than MaxChain segments under each terminator (the cyclic ones included),
\* and the files of HeaderFiles and RejectFiles
WalkFiles ==
  UNION { { MkFile(FullSize(MaxBlocks), MAGIC_BYTES, VersionOk, Decoy(One, 0),
                   Header(Two, chain, term, NoFreeList, MaxBlocks), chain, term, NoFreeList) :
              term \in Terminators(chain) } : chain \in { c \in Chains : Len(c) < MaxChain } }
    \cup HeaderFiles \cup RejectFiles

InitFair ==
  /\ file \in WalkFiles
  /\ pc = "upload"
  /\ InitLocals
  /\ InitSession
  /\ ptr = Null /\ decoded = Null /\ versionStr = Null /\ supported = Null

\* the while loop is synchronous code: a turn that can be taken is taken
SpecFair == InitFair /\ [][Next]_vars /\ WF_vars(WalkStep) /\ WF_vars(WalkDone)

\* C12: analyzeBlocks terminates on every buffer and header pair, a cyclic
\* metadata chain included: a chain walk that has begun is left, and the
\* classification loop is entered.
C12_AnalyzeBlocksTerminates == (pc = "ab_walk") ~> (pc = "ab_classify")

-----------------------------------------------------------------------------
(* The order of the chain walk                                              *)

\* the byte offset of segment (id, index) under the selected header
LinkOffset(id, index) ==
  LET bsize == Number(SelectedHeader.blockAllocSize)
  IN NumAdd(NumAdd(12288 + 8, NumMul(Number(id), bsize)),
            index * (((bsize - 8) \div 512) * 8))

\* the walk has been left
PastWalk == pc \in { "ab_classify", "finish" } \/ (pc = "done" /\ fileAnalysis # Null)

\* what holds of the walk in every state
WalkInvariant ==
  /\ pc = "ab_walk" => walkEnd = None
  /\ PastWalk =>
       /\ walkEnd = "sentinel" <=> currentMetaBlockPointer = INVALID_BLOCK
       /\ walkEnd = "error" =>
            \/ LinkOffset(currentMetaBlockId, currentMetaBlockIndex) < 0
            \/ LinkOffset(currentMetaBlockId, currentMetaBlockIndex) + 8 > buffer.size
       /\ SelectedHeader.metaBlock.pointer = INVALID_BLOCK => visited = {} /\ walkTurns = 0
       /\ FileChain.ok =>
            /\ walkEnd = "sentinel"
            /\ visited = FileChain.segs
            /\ walkTurns = Cardinality(FileChain.segs) % 2

\* what every step of the walk does
WalkOrder ==
  /\ pc = "ab_walkinit" /\ pc' = "ab_walk" =>
       /\ currentMetaBlockPointer' = SelectedHeader.metaBlock.pointer
       /\ visited' = {}
  /\ pc = "ab_walk" /\ pc' = "ab_walk" =>
       /\ currentMetaBlockPointer # INVALID_BLOCK
       /\ currentMetaBlockId = [currentMetaBlockPointer EXCEPT ![8] = 0]
       /\ currentMetaBlockIndex = currentMetaBlockPointer[8]
       /\ visited' = visited \cup { << currentMetaBlockId, currentMetaBlockIndex >> }
       /\ currentMetaBlockPointer' =
            StoredWord(LinkOffset(currentMetaBlockId, currentMetaBlockIndex))
  /\ pc = "ab_walk" /\ pc' = "ab_classify" /\ walkEnd' = "sentinel" =>
       /\ currentMetaBlockPointer = INVALID_BLOCK
       /\ visited' = visited

\* C21: the walk starts at the active header's metaBlock pointer, reads
\* each next pointer at 12288 + blockId x blockAllocSize + 8 + segmentIndex
\* x segmentSize, records the segment it stands on, and leaves the loop
\* without an error exactly when the pointer is 0xFFFFFFFFFFFFFFFF; on an
\* acyclic in-bounds chain it records exactly the chain's segments, one per
\* step; a sentinel metaBlock pointer records nothing.
C21_WalkFollowsTheChain == []WalkInvariant /\ [][WalkOrder]_vars

\* a chain of three segments has been walked to its sentinel
C21_Witness ==
  /\ pc = "done"
  /\ fileAnalysis # Null
  /\ FileChain.ok
  /\ visited = FileChain.segs
  /\ Cardinality(visited) = 3
  /\ walkEnd = "sentinel"
  /\ walkTurns = 1


-----------------------------------------------------------------------------
(* The size of a metadata segment                                           *)

\* analyzeBlocks has computed blockSize and segmentSize
PastEnter == pc \notin { "upload", "await", "validate", "headers", "ab_enter", "catch" }
               /\ (pc = "done" => fileAnalysis # Null)

\* n rounded down to a multiple of 8
FloorToEight(n) == (n \div 8) * 8

\* C22: the segment size analyzeBlocks computes is floor((blockAllocSize - 8)
\* / 64) rounded down to a multiple of 8, and for every block size of at
\* least 8 it is a non-negative multiple of 8 such that the block header and
\* 64 segments fit in one block.
C22_SegmentSizeFitsTheBlock ==
  PastEnter =>
    /\ blockSize = Number(activeHeader.blockAllocSize)
    /\ segmentSize = FloorToEight((blockSize - 8) \div 64)
    /\ blockSize >= 8 =>
         /\ segmentSize >= 0
         /\ segmentSize % 8 = 0
         /\ 8 + 64 * segmentSize <= blockSize

\* an unaligned block size has been analysed: 4100 bytes give 56-byte
\* segments, with room to spare
C22_Witness ==
  /\ pc = "done" /\ fileAnalysis # Null
  /\ blockSize = 4100 /\ segmentSize = 56
  /\ 8 + 64 * segmentSize < blockSize


-----------------------------------------------------------------------------
(* Where a reported block lies                                              *)

\* the offset, readability and checksum of the k-th reported block
BlockLocated(k) ==
  LET block == blocks[k]
      at == BLOCK_START + Number(block.id) * blockSize
  IN /\ block.offset = at
     /\ at + 8 <= buffer.size
     /\ block.checksum = StoredWord(at)

\* C23: every reported block whose status is not INVALID has offset
\* 12288 + id * blockAllocSize, its 8-byte checksum field lies inside the
\* buffer, and its checksum is the little-endian 64-bit value stored there.
C23_ReportedBlocksLocated ==
  \A k \in 1..Len(blocks) : blocks[k].status # "invalid" => BlockLocated(k)

\* an analysis returned two readable blocks, the first with a non-zero
\* checksum and the second at a non-zero multiple of the block size
C23_Witness ==
  /\ pc = "done" /\ fileAnalysis # Null
  /\ Len(blocks) = 2 /\ blockSize = 1032
  /\ blocks[1].status # "invalid" /\ blocks[1].checksum = BlockChecksum
  /\ blocks[2].status # "invalid" /\ blocks[2].offset = BLOCK_START + 1032


-----------------------------------------------------------------------------
(* Segments reported as used, and the bytes behind them                     *)

\* the 8-byte link field of segment (id, index) lies inside the buffer
LinkReadable(id, index) ==
  LinkOffset(id, index) >= 0 /\ LinkOffset(id, index) + 8 <= buffer.size

\* the walk stopped at a segment whose link it could not read
WalkFailedAt(id, index) ==
  /\ walkEnd = "error"
  /\ currentMetaBlockId = id /\ currentMetaBlockIndex = index

\* C24: every segment reported as used in a METADATA block has its 8-byte
\* link field entirely inside the buffer; a segment the walker could not
\* read is never marked used.
C24_UsedSegmentsReadable ==
  Returned =>
    \A k \in 1..Len(blocks) :
      blocks[k].status = "metadata" =>
        \A j \in 0..(META_SEGMENTS_PER_BLOCK - 1) :
          blocks[k].metaSegments[j + 1].used =>
            /\ LinkReadable(blocks[k].id, j)
            /\ ~WalkFailedAt(blocks[k].id, j)


-----------------------------------------------------------------------------
(* The layout of the main header                                            *)

\* s is the text of the 64 bytes at `at` without their trailing NULs
TextAsStored(s, at) ==
  /\ Len(s) <= 64
  /\ \A k \in 1..64 : ReadByte(buffer, at + k - 1) = (IF k <= Len(s) THEN s[k] ELSE 0)
  /\ s # << >> => s[Len(s)] # 0

\* the fields of h are the bytes at their places in the buffer
MainHeaderAsStored(h) ==
  /\ h.checksum = StoredWord(0)
  /\ h.magic = << ReadByte(buffer, 8), ReadByte(buffer, 9),
                  ReadByte(buffer, 10), ReadByte(buffer, 11) >>
  /\ h.versionNumber = StoredWord(12)
  /\ Len(h.flags) = 4
  /\ h.flags[1] = StoredWord(20) /\ h.flags[2] = StoredWord(28)
  /\ h.flags[3] = StoredWord(36) /\ h.flags[4] = StoredWord(44)
  /\ TextAsStored(h.libraryVersion, 52)
  /\ TextAsStored(h.sourceId, 116)

\* parseMainHeader has been called on a buffer without the magic bytes
MagicRefused == PastSizeCheck /\ SizeAccepted /\ BadMagic

\* C26: parseMainHeader reads the checksum at byte 0, the magic at 8..11,
\* the version number at 12, the four flags at 20, 28, 36 and 44, the
\* library version at 52..115 and the source id at 116..179, both texts
\* without their trailing NULs; when the magic is not 'DUCK' it throws and
\* returns no header.
C26_MainHeaderLayout ==
  /\ ~Unset(mainHeader) => MainHeaderAsStored(mainHeader)
  /\ MagicRefused => Unset(mainHeader) /\ thrown = ErrFormat

\* a header has been decoded whose fields all differ
C26_Witness ==
  /\ pc = "done" /\ fileAnalysis # Null
  /\ mainHeader.versionNumber = BigInt(64)
  /\ mainHeader.flags = << BigInt(1), BigInt(2), BigInt(3), BigInt(4) >>
  /\ mainHeader.libraryVersion = << 118, 49, 46, 50, 46, 48 >>
  /\ mainHeader.sourceId = << 97, 0, 98 >>


-----------------------------------------------------------------------------
(* The layout of a database header                                          *)

\* p is the raw pointer stored at `at`, with its block id and block index
PointerAsStored(p, at) ==
  /\ p.pointer = StoredWord(at)
  /\ p.blockId = getBlockId(StoredWord(at))
  /\ p.blockIndex = getBlockIndex(StoredWord(at))

\* the fields of header d are the eight words from byte h of the buffer on
DatabaseHeaderAsStored(d, h) ==
  /\ d.checksum = StoredWord(h)
  /\ d.iteration = StoredWord(h + 8)
  /\ PointerAsStored(d.metaBlock, h + 16)
  /\ PointerAsStored(d.freeList, h + 24)
  /\ d.blockCount = StoredWord(h + 32)
  /\ d.blockAllocSize = StoredWord(h + 40)
  /\ d.vectorSize = StoredWord(h + 48)
  /\ d.serializationCompatibility = StoredWord(h + 56)

\* C27: parseDatabaseHeader(buffer, h) reads checksum, iteration, metaBlock,
\* freeList, blockCount, blockAllocSize, vectorSize and
\* serializationCompatibility from h, h + 8, ..., h + 56; the block id and
\* block index of both pointers are getBlockId and getBlockIndex of the raw
\* pointer; the handler decodes one header at 4096 and one at 8192.
C27_DatabaseHeaderLayout ==
  /\ Unset(dbHeader1) <=> Unset(dbHeader2)
  /\ ~Unset(dbHeader1) =>
       /\ DatabaseHeaderAsStored(dbHeader1, 4096)
       /\ DatabaseHeaderAsStored(dbHeader2, 8192)

\* two headers have been decoded that differ, each with all fields set and
\* a free-list pointer that carries a segment index
C27_Witness ==
  /\ pc = "done" /\ fileAnalysis # Null
  /\ dbHeader1.iteration = BigInt(1) /\ dbHeader2.iteration = BigInt(2)
  /\ dbHeader1.checksum = BigInt(54321)
  /\ dbHeader2.serializationCompatibility = BigInt(9)
  /\ dbHeader2.vectorSize = BigInt(2048)
  /\ dbHeader1.blockAllocSize = BigInt(3072)
  /\ dbHeader2.blockAllocSize = BigInt(4096)
  /\ dbHeader2.freeList.blockId = BigInt(2) /\ dbHeader2.freeList.blockIndex = 63


-----------------------------------------------------------------------------
(* Several uploads in one page: handleFileUpload is called once per file    *)
(* selected, and a call is suspended only at its await                      *)

\* calls of handleFileUpload in one behaviour
MaxUploads == 3

\* files a user may select: a chain with a free list, an empty database, a
\* file without the magic bytes, a file over the size limit, a free list
\* whose count is too large
SessionFiles ==
  LET chain == << <<1, 0>>, <<1, 5>> >>
      fl(count) == [ loc |-> <<2, 0>>, count |-> count, ids |-> << BigInt(0) >> ]
      listed(count) ==
        MkFile(FullSize(MaxBlocks), MAGIC_BYTES, VersionOk, Decoy(One, 0),
               Header(Two, chain, INVALID_BLOCK, fl(count), MaxBlocks),
               chain, INVALID_BLOCK, fl(count))
      h == Header(Two, << >>, INVALID_BLOCK, NoFreeList, 1)
      plain(size, magic) ==
        MkFile(size, magic, VersionOk, Decoy(One, 0), h, << >>, INVALID_BLOCK, NoFreeList)
  IN { listed(One), listed(BigInt(6)),
       plain(FullSize(1), MAGIC_BYTES), plain(FullSize(1), MagicFake),
       plain(MAX_FILE_SIZE + 1, MAGIC_BYTES) }

InitUploads ==
  /\ file \in SessionFiles
  /\ pc = "upload"
  /\ InitLocals
  /\ InitSession
  /\ ptr = Null /\ decoded = Null /\ versionStr = Null /\ supported = Null

\* a new call starts, or a suspended one resumes: its own locals are unset;
\* those of analyzeBlocks are declared when it is entered
FreshCall ==
  /\ mainHeader' = Null /\ dbHeader1' = Null /\ dbHeader2' = Null
  /\ thrown' = None
  /\ flReads' = {} /\ visited' = {} /\ walkEnd' = None /\ walkTurns' = 0
  /\ UNCHANGED << fileAnalysis, error, enterVars, freeBlocks, flOffset, freeListCount,
                  flIndex, currentMetaBlockPointer, currentMetaBlockId,
                  currentMetaBlockIndex, metaBlockUsedIndexes, i, blocks, codecVars,
                  results, shownOffsets >>

\* the change event of the file input: it is handled when no call is running,
\* that is when the latest call has completed or is suspended at its await
SelectFile ==
  /\ pc \in { "await", "done" }
  /\ uploads < MaxUploads
  /\ \E next \in SessionFiles :
       /\ next \notin waiting
       /\ pc = "await" => next # file
       /\ file' = next
       /\ selected' = next
  /\ waiting' = (IF pc = "await" THEN waiting \cup { file } ELSE waiting)
  /\ uploads' = uploads + 1
  /\ buffer' = Null
  /\ pc' = "upload"
  /\ FreshCall

\* the arrayBuffer() read of a suspended call completes: the call resumes
\* after its await
ResumeRead ==
  /\ pc \in { "await", "done" }
  /\ \E read \in waiting :
       /\ file' = read
       /\ buffer' = read
       /\ waiting' = (IF pc = "await" THEN (waiting \ { read }) \cup { file }
                      ELSE waiting \ { read })
  /\ pc' = "validate"
  /\ FreshCall
  /\ UNCHANGED << selected, uploads >>

NextUploads ==
  \/ Next
  \/ SelectFile
  \/ ResumeRead

SpecUploads == InitUploads /\ [][NextUploads]_vars


-----------------------------------------------------------------------------
(* What the page shows after several uploads                                *)

\* every call of handleFileUpload so far has completed
AllCompleted == pc = "done" /\ waiting = {}

\* an earlier call ended with an analysis
EarlierSuccess == \E f \in DOMAIN results : f # file /\ results[f][1] # Null

\* C28: after any sequence of uploads, fileAnalysis and error are never both
\* non-null; a call that completed without an error has set fileAnalysis,
\* from its own file, and cleared error, and a call that completed with an
\* error has set error to its message and cleared fileAnalysis.
C28_AnalysisOrError ==
  /\ ~(fileAnalysis # Null /\ error # None)
  /\ pc = "done" /\ thrown = None =>
       /\ fileAnalysis # Null /\ error = None
       /\ fileAnalysis[1].mainHeader = mainHeader
       /\ fileAnalysis[1].blocks = blocks
  /\ pc = "done" /\ thrown # None => error = thrown /\ fileAnalysis = Null

\* the third upload failed after an earlier one had succeeded: only its
\* error is shown
C28_Witness ==
  /\ AllCompleted /\ uploads = 3
  /\ EarlierSuccess
  /\ thrown = ErrFormat /\ error = ErrFormat /\ fileAnalysis = Null


\* C29: when a file is selected while the read of an earlier one is pending,
\* then once all calls have completed the page shows what the call for the
\* file selected last produced, in every order of the reads.
C29_LastSelectedFileShown ==
  AllCompleted /\ selected \in DOMAIN results =>
    << fileAnalysis, error >> = results[selected]

\* the free set, the used-index map and the block array analyzeBlocks builds
\* are its own: the inputs are left as they were
InputsKept == UNCHANGED << buffer, dbHeader1, dbHeader2 >>

InAnalyzeBlocks ==
  pc \in { "ab_enter", "ab_freelist", "ab_flcount", "ab_flread", "ab_walkinit",
           "ab_walk", "ab_classify" }

\* the file at pc has been analysed before
AnalysedBefore == file \in DOMAIN results

\* analyzeBlocks returns what it returned for the same file before
SameResultAgain ==
  pc = "finish" /\ AnalysedBefore =>
    /\ results[file][1] # Null
    /\ results[file][1][1].blocks = blocks
    /\ results[file][1][1].dbHeader1 = dbHeader1
    /\ results[file][1][1].dbHeader2 = dbHeader2

\* analyzeBlocks throws again what it threw for the same file before
SameErrorAgain ==
  pc = "catch" /\ AnalysedBefore => results[file] = << Null, thrown >>

-----------------------------------------------------------------------------
(* The offsets BlockVisualizer shows for the segments                       *)

\* C30: for every METADATA block b and segment index j in 0..63, the offset
\* BlockVisualizer shows for the segment is the whole number of bytes
\* 12288 + b * blockAllocSize + 8 + j * segmentSize, the offset the walker
\* reads that segment's next pointer from.
C30_ShownOffsetIsWalkOffset ==
  shownOffsets # Null =>
    \A k \in DOMAIN shownOffsets[1] :
      \A j \in 0..(META_SEGMENTS_PER_BLOCK - 1) :
        shownOffsets[1][k][j + 1] =
          [ whole |-> LinkOffset(BigInt(k - 1), j), frac64 |-> 0 ]

=============================================================================
